---- MODULE Spec2Model ----
(***************************************************************************)
(* Model of the ingestion pipeline of sheets.py:                           *)
(*   - get_call_history: the multi-endpoint retrieval loop with its retry  *)
(*     budget, rate-limit handling and pagination (FetchSpec);             *)
(*   - save_to_sheets / save_to_csv: deduplicating persistence with the    *)
(*     CSV fallback, run by two callers that may overlap (PersistSpec).    *)
(***************************************************************************)
EXTENDS Integers, Sequences, FiniteSets, TLC

(***************************************************************************)
(* Bounds of the model and constants of the program.                       *)
(***************************************************************************)
\* endpoints = [...] : four candidate endpoints, tried in list order
NumEndpoints == 4
\* max_retries = 3
max_retries == 3
\* response.headers.get("Retry-After", 60)
DefaultRetryAfter == 60
\* largest number of items the upstream puts on one page
MaxItems == 3
\* a Retry-After value the upstream may name
SomeRetryAfter == 5
\* entries handed to the calls made one after the other, all batches together
MaxEntries == 4
\* longest batch of one of two overlapping calls
MaxConcBatch == 1

VARIABLES
    \* ---- get_call_history ----
    f_pc,              \* "run": about to issue a request; "done": returned
    history,           \* the list get_call_history returns
    endpoint,          \* index (1-based) of the endpoint of the for loop
    page,              \* page number of the next request
    attempt,           \* value of the retry loop variable for the next request
    endpoint_history,  \* items collected from the current endpoint
    status,            \* response.status_code of the last response (0: unbound)
    raised,            \* an exception escaped get_call_history
    reqs,              \* requests sent so far, per endpoint
    log,               \* requests and sleeps of the current endpoint, in order
    prevLog,           \* the log of the endpoint left last
    lastSignal,        \* the last page taken had items and signalled more pages
    \* ---- save_to_sheets / save_to_csv, one call per caller at a time ----
    sheet,             \* rows of the primary store (sheet1), the header included
    csv,               \* lines of journal_entries.csv; <<>>: no such file
    sheet0,            \* the rows of the sheet before the first call
    pc,                \* position of each caller in its call
    calls,             \* the batch each call was given
    idx,               \* position of the for loop over calls
    existing_entries,  \* the set get_existing_entries returned to the call
    rows_added,        \* rows_added of the call (of whichever store it uses)
    data_list,         \* the batch handed to save_to_csv; <<>>: not called
    file_exists,       \* save_to_csv: os.path.isfile(csv_file)
    existing_ids,      \* save_to_csv: the ids read from the file
    ret,               \* the value the call returned
    failed,            \* the call ended with an exception
    wrote,             \* data rows the call appended: <<to sheet, to csv>>
    faults,            \* a read of the keys or an append failed during the call
    readAt,            \* length of the sheet when the call read the existing keys
    entriesLeft,       \* entries each caller may still hand to its calls
    prev,              \* the call completed before the current one (sequential)
    via,               \* who called: main, or process_webhook_data and how far it is
    \* ---- process_webhook_data, one payload ----
    w_pc,              \* position in process_webhook_data
    webhook_data,      \* the payload read from the file
    OPENAI_API_KEY,    \* the OpenAI key is configured
    is_completion,     \* the event names a completion
    collected_data,    \* the collected data found
    major_events,      \* collected_data.get("major_events")
    mood,              \* collected_data.get("mood")
    insights,          \* collected_data.get("insights")
    action_items,      \* collected_data.get("action_items")
    format,            \* the branch of the format chain taken (0: else; -1: none yet)
    journal_info,      \* the entry being built
    summarizer,        \* summarize_text: "not called", "answered" or "failed"
    w_raised,          \* an exception reached the handler of process_webhook_data
    journal_data,      \* the list handed to save_to_sheets
    w_ret              \* the value process_webhook_data returned

fvars == <<f_pc, history, endpoint, page, attempt, endpoint_history, status,
           raised, reqs, log, prevLog, lastSignal>>

pvars == <<sheet, csv, sheet0, pc, calls, idx, existing_entries, rows_added,
           data_list, file_exists, existing_ids, ret, failed, wrote, faults,
           readAt, entriesLeft, prev, via>>

nvars == <<w_pc, webhook_data, OPENAI_API_KEY, is_completion, collected_data,
           major_events, mood, insights, action_items, format, journal_info,
           summarizer, w_raised, journal_data, w_ret>>

\* ---- process_webhook_data run again on one payload file, rows in full ----
VARIABLES
    r_pc,              \* "idle", "start", "built", "saved"
    r_payload,         \* webhook_data, the content of the payload file
    r_now,             \* the instant of the run in progress
    r_info,            \* journal_info of the run in progress
    r_sheet,           \* the rows of the sheet, header included
    r_csv,             \* the lines of journal_entries.csv, header included
    r_log              \* per finished run: the store used and the row appended

rvars == <<r_pc, r_payload, r_now, r_info, r_sheet, r_csv, r_log>>

\* ---- webhook_handler.py: the /webhook route ----
VARIABLES
    h_pc,                \* "idle", "received", "parsed", "validated", "ready", "responded"
    summarize_available, \* perplexity_summarize could be imported
    h_request,           \* the POST in hand: its body and what a run of the pipeline would give
    data,                \* request.json
    h_args,              \* the argparse.Namespace built for the pipeline
    h_responses,         \* the responses returned for the POST in hand
    h_escaped,           \* an exception left the view function
    h_served             \* POSTs answered so far

hvars == <<h_pc, summarize_available, h_request, data, h_args, h_responses,
           h_escaped, h_served>>

\* ---- perplexity_summarize.py: main ----
VARIABLES
    m_pc,              \* "idle", "start", "summarized", "sheets_done", "done"
    args,              \* the parsed command line
    sheets_available,  \* save_to_sheets could be imported from sheets.py
    conversation_data, \* what get_conversation_details returned
    files,             \* the CSV files on disk, line by line
    m_sheet,           \* the ids of the rows of the sheet
    m_before,          \* data rows of journal_entries.csv when the run began
    m_ret,             \* the value main returned
    m_runs             \* runs started so far

mvars == <<m_pc, args, sheets_available, conversation_data, files, m_sheet,
           m_before, m_ret, m_runs>>

xvars == <<rvars, hvars, mvars>>

vars == <<fvars, pvars, nvars, xvars>>

(***************************************************************************)
(* get_call_history                                                        *)
(***************************************************************************)
Endpoints == 1..NumEndpoints

\* the "type" of each entry of endpoints
EndpointType(e) ==
    CASE e = 1 -> "standard"
      [] e = 2 -> "call_logs"
      [] e = 3 -> "calls"
      [] OTHER -> "agent_calls"

\* the list-valued key one response body carries
DataKeys == {"history", "call_logs", "calls", "items", "other"}

\* how a response body signals further pages
Signals == {"has_more_true", "has_more_false", "next_url", "next_null", "none"}

\* the n items of page p of endpoint e
PageItems(e, p, n) == [i \in 1..n |-> <<e, p, i>>]

\* items = [] ; if endpoint['type'] == ... and '<key>' in data ... elif 'items' in data
ExtractItems(type, key, list) ==
    IF type = "standard" /\ key = "history" THEN list
    ELSE IF type = "call_logs" /\ key = "call_logs" THEN list
    ELSE IF type = "calls" /\ key = "calls" THEN list
    ELSE IF type = "agent_calls" /\ key = "calls" THEN list
    ELSE IF key = "items" THEN list
    ELSE <<>>

\* has_more = False; if 'has_more' in data ... elif 'next' in data ...
HasMore(signal) ==
    IF signal \in {"has_more_true", "has_more_false"} THEN signal = "has_more_true"
    ELSE IF signal \in {"next_url", "next_null"} THEN signal = "next_url"
    ELSE FALSE

\* wait_time = int(response.headers.get("Retry-After", 60))
\* the Retry-After header: <<>> when absent, <<n>> when it names n seconds
RetryAfterValues == {<<>>, <<SomeRetryAfter>>}
RateLimitWait(retry_after) ==
    IF retry_after = <<>> THEN DefaultRetryAfter ELSE retry_after[1]

Pow2(n) == IF n = 0 THEN 1 ELSE IF n = 1 THEN 2 ELSE IF n = 2 THEN 4 ELSE 8
\* wait_time = 2 ** attempt
BackoffWait(att) == Pow2(att)

ReqEv(p, out) == <<"req", p, out>>
SleepEv(secs) == <<"sleep", secs, "-">>

FetchVarsInit(start) ==
    /\ f_pc = start
    /\ history = <<>>
    /\ endpoint = 1
    /\ page = 1
    /\ attempt = 0
    /\ endpoint_history = <<>>
    /\ status = 0
    /\ raised = FALSE
    /\ reqs = [e \in Endpoints |-> 0]
    /\ log = <<>>
    /\ prevLog = <<>>
    /\ lastSignal = FALSE

\* a plausible slip: no break after a working endpoint (a union over endpoints)
StopAtEndpoint_Union(eh) == FALSE

\* if endpoint_history: history.extend(endpoint_history); break
StopAtEndpoint(eh) == eh /= <<>>

\* the for loop over endpoints moves on, or the function returns history
EndpointFinished(eh, lg, more) ==
    /\ raised' = FALSE
    /\ history' = history \o eh
    /\ lastSignal' = more
    /\ IF StopAtEndpoint(eh) \/ endpoint = NumEndpoints
       THEN /\ f_pc' = "done"
            /\ log' = lg
            /\ UNCHANGED <<endpoint, page, attempt, endpoint_history, prevLog>>
       ELSE /\ f_pc' = "run"
            /\ prevLog' = lg
            /\ log' = <<>>
            /\ endpoint' = endpoint + 1
            /\ page' = 1
            /\ attempt' = 0
            /\ endpoint_history' = <<>>

\* a plausible slip: the handler re-raises, and the exception leaves the function
OuterExcept_Reraise(lg) ==
    /\ raised' = TRUE
    /\ f_pc' = "done"
    /\ log' = lg
    /\ UNCHANGED <<history, endpoint, page, attempt, endpoint_history, prevLog,
                   lastSignal>>

\* except Exception as e: print(...)  -- the endpoint produced nothing
OuterExcept(lg) == EndpointFinished(<<>>, lg, FALSE)

\* a plausible slip: the page loop runs again after every answer but a 404
PageLoopContinues_Always(att, eh, st) == st /= 404

\* the statements after the retry loop: whether the page loop runs again
PageLoopContinues(att, eh, st) ==
    IF att = max_retries - 1 /\ eh = <<>> THEN FALSE
    ELSE LET has_more == FALSE
         IN  ~(st = 404 \/ ~has_more)

\* the retry loop was left (break, or range exhausted) with attempt = att
AfterRetryLoop(att, eh, st, pg, lg, more) ==
    IF att = max_retries - 1 /\ eh = <<>> THEN EndpointFinished(eh, lg, more)
    ELSE IF st = 0 THEN OuterExcept(lg)
    ELSE IF PageLoopContinues(att, eh, st)
         THEN /\ f_pc' = "run"
              /\ attempt' = 0
              /\ page' = pg
              /\ endpoint_history' = eh
              /\ log' = lg
              /\ lastSignal' = more
              /\ UNCHANGED <<history, endpoint, raised, prevLog>>
         ELSE EndpointFinished(eh, lg, more)

\* the retry loop goes to its next attempt, or is exhausted
NextAttempt(st, lg) ==
    IF attempt < max_retries - 1
    THEN /\ f_pc' = "run"
         /\ attempt' = attempt + 1
         /\ log' = lg
         /\ UNCHANGED <<history, endpoint, page, endpoint_history, raised,
                        prevLog, lastSignal>>
    ELSE AfterRetryLoop(attempt, endpoint_history, st, page, lg, lastSignal)

Sent == reqs' = [reqs EXCEPT ![endpoint] = @ + 1] /\ UNCHANGED <<pvars, nvars, xvars>>

\* response.status_code == 404: break
Resp404 ==
    /\ f_pc = "run"
    /\ Sent
    /\ status' = 404
    /\ AfterRetryLoop(attempt, endpoint_history, 404, page,
                      Append(log, ReqEv(page, "404")), lastSignal)

\* response.status_code == 429: sleep, continue
Resp429 ==
    /\ f_pc = "run"
    /\ Sent
    /\ status' = 429
    /\ \E ra \in RetryAfterValues :
          NextAttempt(429, log \o <<ReqEv(page, "429"), SleepEv(RateLimitWait(ra))>>)

\* requests.get raises (st = status: the response stays the previous one), or
\* raise_for_status raises for an error status
RespFail ==
    /\ f_pc = "run"
    /\ Sent
    /\ \E st \in {status, 500} :
          /\ status' = st
          /\ IF attempt < max_retries - 1
             THEN NextAttempt(st, log \o <<ReqEv(page, "fail"),
                                           SleepEv(BackoffWait(attempt))>>)
             ELSE AfterRetryLoop(attempt, endpoint_history, st, page,
                                 Append(log, ReqEv(page, "fail")), lastSignal)

\* the body is not what the code expects (response.json() or the key lookups
\* raise something that is no RequestException), or Retry-After is no integer
RespUnexpected ==
    /\ f_pc = "run"
    /\ Sent
    /\ \E st \in {200, 429} :
          /\ status' = st
          /\ OuterExcept(Append(log, ReqEv(page, "bad")))

\* a 200 response with a JSON object
RespOk ==
    /\ f_pc = "run"
    /\ Sent
    /\ status' = 200
    /\ \E n \in 0..MaxItems, key \in DataKeys, signal \in Signals :
          LET items == ExtractItems(EndpointType(endpoint), key,
                                    PageItems(endpoint, page, n))
              lg == Append(log, ReqEv(page, "ok"))
          IN  IF items = <<>>
              THEN AfterRetryLoop(attempt, endpoint_history, 200, page, lg, FALSE)
              ELSE IF ~HasMore(signal)
              THEN AfterRetryLoop(attempt, endpoint_history \o items, 200,
                                  page, lg, FALSE)
              ELSE AfterRetryLoop(attempt, endpoint_history \o items, 200,
                                  page + 1, lg, TRUE)

FetchNext == Resp404 \/ Resp429 \/ RespFail \/ RespUnexpected \/ RespOk

(***************************************************************************)
(* save_to_sheets and its fallback save_to_csv                             *)
(***************************************************************************)
Procs == {1, 2}

\* call["date"] values: two spellings of one instant, another instant, and a
\* value datetime.fromisoformat rejects
RawDates == {"2024-01-01T10:00:00Z", "2024-01-01T10:00:00",
             "2024-01-02T09:30:00Z", "yesterday"}
Ids == {"a", "b"}

\* datetime.fromisoformat(call["date"].replace("Z", "+00:00")) succeeds
DateParses(raw) == raw /= "yesterday"
\* timestamp.strftime("%Y-%m-%d %H:%M:%S")
FormatDate(raw) ==
    IF raw \in {"2024-01-01T10:00:00Z", "2024-01-01T10:00:00"}
    THEN "2024-01-01 10:00:00"
    ELSE "2024-01-02 09:30:00"

\* the entries of the batches: the two spellings under different ids, another
\* instant and an unparseable date under the id of the first
Entries == {[date |-> "2024-01-01T10:00:00", id |-> "b"]}
           \cup {[date |-> d, id |-> "a"] : d \in RawDates \ {"2024-01-01T10:00:00"}}
Batches(n) == UNION {[1..k -> Entries] : k \in 1..n}

\* sheet.append_row(["Date", "Call ID", ...])
SheetHeader == [date |-> "Date", id |-> "Call ID"]
\* fieldnames = ['Date', 'ID', ...]
CsvHeader == [date |-> "Date", id |-> "ID"]

\* a plausible slip: the key is formed from the raw date of the call
EntryKey_RawDate(call) == <<call.date, call.id>>

\* entry_key = f"{formatted_date}:{call_id}"
EntryKey(call) == <<FormatDate(call.date), call.id>>

\* the row save_to_sheets appends for a call
SheetRow(call) == [date |-> FormatDate(call.date), id |-> call.id]
\* the row save_to_csv writes for an item: 'Date': item.get('date'), 'ID': item_id
CsvRow(item) == [date |-> item.date, id |-> item.id]

\* a plausible slip: the stored keys are not looked at
get_existing_entries_Empty(all_values) == {}

\* get_existing_entries: the keys of the rows read, the header row skipped only
\* when its first two cells are "Date" and "Summary"
get_existing_entries(all_values) ==
    IF all_values = <<>> THEN {}
    ELSE LET rows == IF all_values[1].date = "Date" /\ all_values[1].id = "Summary"
                     THEN Tail(all_values) ELSE all_values
         IN  {<<rows[i].date, rows[i].id>> : i \in DOMAIN rows}

\* save_to_csv: the ids of the records csv.DictReader yields (the first line
\* gives the field names)
CsvExistingIds(file) == {file[i].id : i \in 2..Len(file)}

NoCall == [batch |-> <<>>, store |-> "none", clean |-> FALSE, ret |-> 0,
           rows |-> 0, wrote |-> 0]

PersistVarsInit(s0, c0, left) ==
    /\ sheet = s0
    /\ csv = c0
    /\ sheet0 = s0
    /\ pc = [p \in Procs |-> "idle"]
    /\ calls = [p \in Procs |-> <<>>]
    /\ idx = [p \in Procs |-> 1]
    /\ existing_entries = [p \in Procs |-> {}]
    /\ rows_added = [p \in Procs |-> 0]
    /\ data_list = [p \in Procs |-> <<>>]
    /\ file_exists = [p \in Procs |-> FALSE]
    /\ existing_ids = [p \in Procs |-> {}]
    /\ ret = [p \in Procs |-> 0]
    /\ failed = [p \in Procs |-> FALSE]
    /\ wrote = [p \in Procs |-> <<0, 0>>]
    /\ faults = [p \in Procs |-> FALSE]
    /\ readAt = [p \in Procs |-> 0]
    /\ entriesLeft = left
    /\ prev = NoCall
    /\ via = [p \in Procs |-> "main"]

\* the data rows of the two stores
SheetData == SelectSeq(sheet, LAMBDA r : r /= SheetHeader)
CsvData == IF csv = <<>> THEN <<>> ELSE Tail(csv)
SheetKeys == {<<SheetData[i].date, SheetData[i].id>> : i \in DOMAIN SheetData}

\* the store a finished call used
StoreOf(p) == IF data_list[p] /= <<>> THEN "csv" ELSE "sheet"

\* what is remembered of the call that caller p has just finished
Summary(p) ==
    [batch |-> calls[p], store |-> StoreOf(p), clean |-> ~faults[p] /\ ~failed[p],
     ret |-> ret[p],
     rows |-> IF StoreOf(p) = "csv" THEN Len(CsvData) ELSE Len(SheetData),
     wrote |-> IF StoreOf(p) = "csv" THEN wrote[p][2] ELSE wrote[p][1]]

\* a call of save_to_sheets(b) begins
Begin(p, b) ==
    /\ entriesLeft' = [entriesLeft EXCEPT ![p] = @ - Len(b)]
    /\ pc' = [pc EXCEPT ![p] = "open"]
    /\ calls' = [calls EXCEPT ![p] = b]
    /\ idx' = [idx EXCEPT ![p] = 1]
    /\ existing_entries' = [existing_entries EXCEPT ![p] = {}]
    /\ rows_added' = [rows_added EXCEPT ![p] = 0]
    /\ data_list' = [data_list EXCEPT ![p] = <<>>]
    /\ file_exists' = [file_exists EXCEPT ![p] = FALSE]
    /\ existing_ids' = [existing_ids EXCEPT ![p] = {}]
    /\ ret' = [ret EXCEPT ![p] = 0]
    /\ failed' = [failed EXCEPT ![p] = FALSE]
    /\ wrote' = [wrote EXCEPT ![p] = <<0, 0>>]
    /\ faults' = [faults EXCEPT ![p] = FALSE]
    /\ readAt' = [readAt EXCEPT ![p] = 0]
    /\ prev' = IF pc[p] = "done" THEN Summary(p) ELSE prev
    /\ UNCHANGED <<sheet, csv, sheet0>>
    /\ UNCHANGED <<fvars, nvars, xvars>>

\* main(): one bulk call after the other, each with the batch retrieved
StartCall(p) ==
    /\ pc[p] \in {"idle", "done"}
    /\ via' = [via EXCEPT ![p] = "main"]
    /\ \E b \in Batches(entriesLeft[p]) : Begin(p, b)

\* two webhook deliveries whose calls may overlap: process_webhook_data calls
\* save_to_sheets(journal_data)
Deliver(p) ==
    /\ pc[p] = "idle"
    /\ via' = [via EXCEPT ![p] = "webhook"]
    /\ \E b \in Batches(entriesLeft[p]) : Begin(p, b)

\* except Exception: print(...); return save_to_csv(calls)
Fallback(p) ==
    /\ pc' = [pc EXCEPT ![p] = "csv_read"]
    /\ data_list' = [data_list EXCEPT ![p] = calls[p]]
    /\ rows_added' = [rows_added EXCEPT ![p] = 0]

\* credentials, authorize, open or create, sheet1, get_all_values succeed
OpenOk(p) ==
    /\ pc[p] = "open"
    /\ pc' = [pc EXCEPT ![p] = IF sheet = <<>> THEN "header" ELSE "read"]
    /\ UNCHANGED <<sheet, csv, sheet0, calls, idx, existing_entries, rows_added,
                   data_list, file_exists, existing_ids, ret, failed, wrote,
                   faults, readAt, entriesLeft, prev, via>>
    /\ UNCHANGED <<fvars, nvars, xvars>>

\* one of them raises: the whole batch goes to save_to_csv
OpenFail(p) ==
    /\ pc[p] = "open"
    /\ Fallback(p)
    /\ UNCHANGED <<sheet, csv, sheet0, calls, idx, existing_entries,
                   file_exists, existing_ids, ret, failed, wrote, faults,
                   readAt, entriesLeft, prev, via>>
    /\ UNCHANGED <<fvars, nvars, xvars>>

\* if not sheet.get_all_values(): sheet.append_row([header])
AppendHeader(p) ==
    /\ pc[p] = "header"
    /\ \/ /\ sheet' = Append(sheet, SheetHeader)
          /\ pc' = [pc EXCEPT ![p] = "read"]
          /\ UNCHANGED <<data_list, rows_added>>
       \/ /\ Fallback(p)
          /\ UNCHANGED sheet
    /\ UNCHANGED <<csv, sheet0, calls, idx, existing_entries,
                   file_exists, existing_ids, ret, failed, wrote, faults,
                   readAt, entriesLeft, prev, via>>
    /\ UNCHANGED <<fvars, nvars, xvars>>

\* existing_entries = get_existing_entries(sheet); its own except returns set()
ReadExisting(p) ==
    /\ pc[p] = "read"
    /\ pc' = [pc EXCEPT ![p] = "loop"]
    /\ readAt' = [readAt EXCEPT ![p] = Len(sheet)]
    /\ \/ /\ existing_entries' =
                [existing_entries EXCEPT ![p] = get_existing_entries(sheet)]
          /\ UNCHANGED faults
       \/ /\ existing_entries' = [existing_entries EXCEPT ![p] = {}]
          /\ faults' = [faults EXCEPT ![p] = TRUE]
    /\ UNCHANGED <<sheet, csv, sheet0, calls, idx, rows_added,
                   data_list, file_exists, existing_ids, ret, failed, wrote,
                   entriesLeft, prev, via>>
    /\ UNCHANGED <<fvars, nvars, xvars>>

\* a plausible slip: no try around one call, so a failing row reaches the
\* handler of the whole function
RowErrorIsCaught_No == FALSE

\* for call in calls: try: ... except Exception as e: print(...)
RowErrorIsCaught == TRUE

\* a plausible slip: rows_added counts every call of the batch, skipped or
\* failed ones included
Advance_CountsAll(p, added) ==
    /\ rows_added' = [rows_added EXCEPT ![p] = @ + 1]
    /\ idx' = [idx EXCEPT ![p] = @ + 1]
    /\ IF idx[p] = Len(calls[p])
       THEN /\ pc' = [pc EXCEPT ![p] = "done"]
            /\ ret' = [ret EXCEPT ![p] = rows_added[p] + 1]
       ELSE UNCHANGED <<pc, ret>>
    /\ UNCHANGED data_list

\* the loop goes to the next call, or save_to_sheets returns rows_added
Advance(p, added) ==
    /\ rows_added' = [rows_added EXCEPT ![p] = added]
    /\ idx' = [idx EXCEPT ![p] = @ + 1]
    /\ IF idx[p] = Len(calls[p])
       THEN /\ pc' = [pc EXCEPT ![p] = "done"]
            /\ ret' = [ret EXCEPT ![p] = added]
       ELSE UNCHANGED <<pc, ret>>
    /\ UNCHANGED data_list

\* an exception in the processing of one call
RowError(p) ==
    IF RowErrorIsCaught
    THEN Advance(p, rows_added[p])
    ELSE /\ pc' = [pc EXCEPT ![p] = "csv_read"]
         /\ data_list' = [data_list EXCEPT ![p] = calls[p]]
         /\ rows_added' = [rows_added EXCEPT ![p] = 0]
         /\ UNCHANGED <<idx, ret>>

\* one pass of the for loop of save_to_sheets
ProcessCall(p) ==
    /\ pc[p] = "loop"
    /\ LET call == calls[p][idx[p]]
       IN  IF ~DateParses(call.date)
           THEN RowError(p) /\ UNCHANGED <<sheet, wrote, faults>>
           ELSE IF EntryKey(call) \in existing_entries[p]
           THEN Advance(p, rows_added[p]) /\ UNCHANGED <<sheet, wrote, faults>>
           ELSE \/ /\ sheet' = Append(sheet, SheetRow(call))
                   /\ wrote' = [wrote EXCEPT ![p][1] = @ + 1]
                   /\ Advance(p, rows_added[p] + 1)
                   /\ UNCHANGED faults
                \/ /\ faults' = [faults EXCEPT ![p] = TRUE]
                   /\ RowError(p)
                   /\ UNCHANGED <<sheet, wrote>>
    /\ UNCHANGED <<csv, sheet0, calls, existing_entries, file_exists,
                   existing_ids, failed, readAt, entriesLeft, prev, via>>
    /\ UNCHANGED <<fvars, nvars, xvars>>

\* save_to_csv: file_exists = os.path.isfile(csv_file); the ids are read
CsvRead(p) ==
    /\ pc[p] = "csv_read"
    /\ pc' = [pc EXCEPT ![p] = "csv_write"]
    /\ file_exists' = [file_exists EXCEPT ![p] = csv /= <<>>]
    /\ existing_ids' = [existing_ids EXCEPT ![p] = CsvExistingIds(csv)]
    /\ UNCHANGED <<sheet, csv, sheet0, calls, idx, existing_entries, rows_added,
                   data_list, ret, failed, wrote, faults, readAt, entriesLeft, prev, via>>
    /\ UNCHANGED <<fvars, nvars, xvars>>

\* the items of data_list whose id is not among the ids read, in order
RECURSIVE CsvNewRows(_, _)
CsvNewRows(items, ids) ==
    IF items = <<>> THEN <<>>
    ELSE IF Head(items).id \in ids THEN CsvNewRows(Tail(items), ids)
    ELSE <<CsvRow(Head(items))>> \o CsvNewRows(Tail(items), ids)

\* with open(csv_file, 'a'): header if the file is new, then the rows
CsvWrite(p) ==
    /\ pc[p] = "csv_write"
    /\ LET new == CsvNewRows(data_list[p], existing_ids[p])
       IN  /\ csv' = csv \o (IF file_exists[p] THEN <<>> ELSE <<CsvHeader>>) \o new
           /\ rows_added' = [rows_added EXCEPT ![p] = Len(new)]
           /\ ret' = [ret EXCEPT ![p] = Len(new)]
           /\ wrote' = [wrote EXCEPT ![p][2] = Len(new)]
    /\ pc' = [pc EXCEPT ![p] = "done"]
    /\ UNCHANGED <<sheet, sheet0, calls, idx, existing_entries, data_list,
                   file_exists, existing_ids, failed, faults, readAt,
                   entriesLeft, prev, via>>
    /\ UNCHANGED <<fvars, nvars, xvars>>

\* process_webhook_data: except Exception as e: print(...); return 0
SwallowsFailure == TRUE

\* open(csv_file, 'a') raises: the exception leaves save_to_csv and, from the
\* handler of save_to_sheets, save_to_sheets. main does not catch it;
\* process_webhook_data catches it and calls save_to_csv(journal_data) itself,
\* and when that raises too, its outer handler returns 0
CsvFail(p) ==
    /\ pc[p] = "csv_write"
    /\ IF via[p] = "webhook"
       THEN /\ pc' = [pc EXCEPT ![p] = "csv_read"]
            /\ via' = [via EXCEPT ![p] = "retry"]
            /\ UNCHANGED <<failed, ret>>
       ELSE IF via[p] = "retry" /\ SwallowsFailure
       THEN /\ pc' = [pc EXCEPT ![p] = "done"]
            /\ via' = [via EXCEPT ![p] = "swallowed"]
            /\ ret' = [ret EXCEPT ![p] = 0]
            /\ UNCHANGED failed
       ELSE /\ pc' = [pc EXCEPT ![p] = "done"]
            /\ failed' = [failed EXCEPT ![p] = TRUE]
            /\ UNCHANGED <<via, ret>>
    /\ UNCHANGED <<sheet, csv, sheet0, calls, idx, existing_entries, rows_added,
                   data_list, file_exists, existing_ids, wrote, faults,
                   readAt, entriesLeft, prev>>
    /\ UNCHANGED <<fvars, nvars, xvars>>

PersistStep(p) ==
    \/ OpenOk(p) \/ OpenFail(p) \/ AppendHeader(p) \/ ReadExisting(p)
    \/ ProcessCall(p) \/ CsvRead(p) \/ CsvWrite(p) \/ CsvFail(p)

\* ---------------------------------------------------------------------
\* process_webhook_data: one webhook payload made into one journal entry
\* ---------------------------------------------------------------------

\* A JSON value: t is its type ("null", "str", "int", "list", "dict"), s the
\* characters of a string or the digits of a number, l the elements of a
\* list, d the <<key, value>> pairs of an object.
V(t, s, l, d) == [t |-> t, s |-> s, l |-> l, d |-> d]
Null == V("null", "", <<>>, <<>>)
Str(s) == V("str", s, <<>>, <<>>)
Num(s) == V("int", s, <<>>, <<>>)
List(l) == V("list", "", l, <<>>)
Dict(d) == V("dict", "", <<>>, d)
EmptyDict == Dict(<<>>)
\* what an operation that raised leaves in place of a value
Raised == V("raise", "", <<>>, <<>>)

\* bool(v)
Truthy(v) ==
    CASE v.t = "null" -> FALSE
      [] v.t = "str" -> v.s /= ""
      [] v.t = "int" -> v.s /= "0"
      [] v.t = "list" -> v.l /= <<>>
      [] v.t = "dict" -> v.d /= <<>>
      [] OTHER -> FALSE

\* a or b
Or(a, b) == IF Truthy(a) THEN a ELSE b

\* k in v, for a dict v
In(k, v) == \E i \in DOMAIN v.d : v.d[i][1] = k

\* v.get(k, dflt), for a dict v
Get(v, k, dflt) ==
    IF In(k, v) THEN v.d[CHOOSE i \in DOMAIN v.d : v.d[i][1] = k][2] ELSE dflt

\* sub in s
Contains(s, sub) ==
    \E i \in 1..(Len(s) - Len(sub) + 1) : SubSeq(s, i, i + Len(sub) - 1) = sub

\* s.lower(), on the event names of the payloads
Lower(s) ==
    CASE s = "Call_Ended" -> "call_ended"
      [] OTHER -> s

\* s.capitalize(), on the speaker names of the payloads
Capitalize(s) ==
    CASE s = "user" -> "User"
      [] s = "agent" -> "Agent"
      [] s = "AGENT" -> "Agent"
      [] s = "unknown" -> "Unknown"
      [] OTHER -> s

\* s.strip()
RECURSIVE Strip(_)
Strip(s) ==
    LET white == {" ", "\n"}
    IN  IF s = "" THEN s
        ELSE IF SubSeq(s, 1, 1) \in white THEN Strip(SubSeq(s, 2, Len(s)))
        ELSE IF SubSeq(s, Len(s), Len(s)) \in white THEN Strip(SubSeq(s, 1, Len(s) - 1))
        ELSE s

\* f"{v}"
PyStr(v) ==
    CASE v.t = "str" -> v.s
      [] v.t = "int" -> v.s
      [] v.t = "null" -> "None"
      [] v.t = "list" -> "[...]"
      [] OTHER -> "{...}"

\* for x in v: a list gives its elements, a string its characters, a dict its
\* keys; None and numbers raise TypeError
Iterable(v) == v.t \in {"list", "str", "dict"}
Elements(v) ==
    CASE v.t = "list" -> v.l
      [] v.t = "str" -> [i \in 1..Len(v.s) |-> Str(SubSeq(v.s, i, i))]
      [] OTHER -> [i \in DOMAIN v.d |-> Str(v.d[i][1])]

\* for msg in ...: who = msg.get(<who>, "unknown"); what = msg.get(<what>, "")
\*                 text += f"{who.capitalize()}: {what}\n"
\* skip: the loop has "if isinstance(item, dict)" around its body
RECURSIVE RenderFrom(_, _, _, _)
RenderFrom(elems, who, what, skip) ==
    IF elems = <<>> THEN Str("")
    ELSE LET e == Head(elems)
             rest == RenderFrom(Tail(elems), who, what, skip)
         IN  IF e.t /= "dict"
             THEN IF skip THEN rest ELSE Raised
             ELSE LET role == Get(e, who, Str("unknown"))
                      content == Get(e, what, Str(""))
                  IN  IF role.t /= "str" \/ rest = Raised
                      THEN Raised
                      ELSE Str(Capitalize(role.s) \o ": " \o PyStr(content)
                                  \o "\n" \o rest.s)

\* the loop over a value that may not be a list
Render(v, who, what, skip) ==
    IF ~Iterable(v) THEN Raised ELSE RenderFrom(Elements(v), who, what, skip)

\* transcript.strip() of the text a loop built
Stripped(v) == IF v = Raised THEN Raised ELSE Str(Strip(v.s))

\* datetime.now().isoformat(), and the same instant through strftime
NowIso == "2024-03-05T12:00:00.000000"
NowDate == "2024-03-05 12:00:00"
\* f"journal-{int(time.time())}"
JournalId == "journal-1709640000"

\* lines 654-664: the date of the entry from created_at
DateOf(created_at) ==
    IF created_at.t /= "str" THEN NowDate
    ELSE IF created_at.s = NowIso THEN NowDate
    ELSE IF DateParses(created_at.s) THEN FormatDate(created_at.s)
    ELSE NowDate

\* the turn-records of the payloads, one per naming convention
TurnRoleContent == Dict(<<<<"role", Str("user")>>, <<"content", Str("hi")>>>>)
TurnSpeakerText == Dict(<<<<"speaker", Str("agent")>>, <<"text", Str("hello")>>>>)
TurnRoleMessage == Dict(<<<<"role", Str("agent")>>, <<"message", Str("welcome")>>>>)
\* the collected data of the payloads
Collected == Dict(<<<<"major_events", Str("moved house")>>, <<"mood", Str("happy")>>,
                    <<"insights", Str("sleep more")>>, <<"action_items", Str("call mum")>>>>)

\* the keys a payload may hold, in the order they are written
PayloadKeys ==
    <<"event", "data_collection", "collected_data", "analysis", "call_id",
      "transcript", "timestamp", "id", "conversation", "metadata", "call_sid",
      "call_data", "history_item_id", "text", "call", "summary", "foo">>

\* the values a payload may hold under a key: well-formed ones, empty ones
\* and ones of an unexpected type
ValuesOf(k) ==
    CASE k = "event" -> {Str("call_ended"), Str("ping"), Num("5")}
      [] k = "data_collection" -> {Collected, EmptyDict}
      [] k = "collected_data" -> {Collected}
      [] k = "analysis" -> {Dict(<<<<"data_collection", Collected>>>>), Str("n/a")}
      [] k = "call_id" -> {Str("c1"), Str(""), Null}
      [] k = "transcript" ->
            {Str("hello"),
             List(<<TurnSpeakerText>>),
             List(<<TurnRoleMessage, TurnSpeakerText>>),
             List(<<Str("x"), TurnSpeakerText>>),
             Dict(<<<<"messages", List(<<TurnRoleContent>>)>>>>)}
      [] k = "timestamp" -> {Str("2024-01-01T10:00:00Z"), Str("yesterday"), Num("5")}
      [] k = "id" -> {Str("i1")}
      [] k = "conversation" ->
            {Dict(<<<<"messages", List(<<TurnRoleContent>>)>>>>),
             Dict(<<<<"messages", List(<<TurnRoleContent, TurnSpeakerText>>)>>>>),
             Dict(<<<<"messages", List(<<Str("x")>>)>>>>),
             Str("plain words")}
      [] k = "metadata" -> {EmptyDict, Str("x")}
      [] k = "call_sid" -> {Str("s1")}
      [] k = "call_data" -> {Dict(<<<<"transcript", Str("twilio words")>>>>), Str("x")}
      [] k = "history_item_id" -> {Str("h1")}
      [] k = "text" -> {Str("plain text")}
      [] k = "call" -> {Dict(<<<<"id", Str("k1")>>, <<"transcript", Str("call words")>>>>)}
      [] k = "summary" -> {Str("Payload summary")}
      [] OTHER -> {Str("bar")}

\* most keys in one payload
MaxKeys == 3

\* the key-value pairs of the payloads with at most n keys, of the keys from
\* position i on
RECURSIVE PairsFrom(_, _)
PairsFrom(i, n) ==
    IF i > Len(PayloadKeys) \/ n = 0 THEN {<<>>}
    ELSE PairsFrom(i + 1, n)
         \cup {<<<<PayloadKeys[i], v>>>> \o rest :
                   v \in ValuesOf(PayloadKeys[i]), rest \in PairsFrom(i + 1, n - 1)}

\* json.load(f): the payloads, the empty object {} included
Payloads == {Dict(d) : d \in PairsFrom(1, MaxKeys)}

\* journal_info = {}: a key not set reads as None
NoInfo ==
    [id |-> Null, created_at |-> Null, conversation |-> Null, date |-> Null,
     history_item_id |-> Null, text |-> Null, summary |-> Null,
     major_events |-> Null, mood |-> Null, insights |-> Null, action_items |-> Null]

NormalizeVarsInit(start, wd, key) ==
    /\ w_pc = start
    /\ webhook_data = wd
    /\ OPENAI_API_KEY = key
    /\ is_completion = FALSE
    /\ collected_data = EmptyDict
    /\ major_events = Null
    /\ mood = Null
    /\ insights = Null
    /\ action_items = Null
    /\ format = -1
    /\ journal_info = NoInfo
    /\ summarizer = "not called"
    /\ w_raised = FALSE
    /\ journal_data = <<>>
    /\ w_ret = 0

\* except Exception as e: print(...); return 0
ToExcept ==
    /\ w_pc' = "returned"
    /\ w_raised' = TRUE
    /\ w_ret' = 0

\* "complete" in event_type or "end" in event_type or "disconnect" in event_type
IsCompletion(event_type) ==
    \/ Contains(event_type, "complete")
    \/ Contains(event_type, "end")
    \/ Contains(event_type, "disconnect")

\* if "event" in webhook_data: event_type = webhook_data.get("event", "").lower()
DetectEvent ==
    /\ w_pc = "start"
    /\ LET event == Get(webhook_data, "event", Str(""))
       IN  IF In("event", webhook_data) /\ event.t /= "str"
           THEN ToExcept /\ UNCHANGED is_completion
           ELSE /\ is_completion' =
                      (In("event", webhook_data) /\ IsCompletion(Lower(event.s)))
                /\ w_pc' = "collect"
                /\ UNCHANGED <<w_raised, w_ret>>
    /\ UNCHANGED <<webhook_data, OPENAI_API_KEY, collected_data, major_events, mood,
                   insights, action_items, format, journal_info, summarizer,
                   journal_data>>
    /\ UNCHANGED <<fvars, pvars, xvars>>

\* the if / elif / elif over the three places of the collected data
CollectedData(wd) ==
    IF In("data_collection", wd) THEN Get(wd, "data_collection", EmptyDict)
    ELSE IF In("collected_data", wd) THEN Get(wd, "collected_data", EmptyDict)
    ELSE IF In("analysis", wd)
    THEN LET analysis == Get(wd, "analysis", EmptyDict)
         IN  IF analysis.t /= "dict" THEN Raised
             ELSE Get(analysis, "data_collection", EmptyDict)
    ELSE EmptyDict

\* if collected_data: major_events = collected_data.get("major_events") ...
CollectData ==
    /\ w_pc = "collect"
    /\ LET found == CollectedData(webhook_data)
       IN  IF found = Raised \/ (Truthy(found) /\ found.t /= "dict")
           THEN /\ ToExcept
                /\ UNCHANGED <<collected_data, major_events, mood, insights, action_items>>
           ELSE /\ collected_data' = found
                /\ major_events' = IF Truthy(found) THEN Get(found, "major_events", Null) ELSE Null
                /\ mood' = IF Truthy(found) THEN Get(found, "mood", Null) ELSE Null
                /\ insights' = IF Truthy(found) THEN Get(found, "insights", Null) ELSE Null
                /\ action_items' = IF Truthy(found) THEN Get(found, "action_items", Null) ELSE Null
                /\ w_pc' = "match"
                /\ UNCHANGED <<w_raised, w_ret>>
    /\ UNCHANGED <<webhook_data, OPENAI_API_KEY, is_completion, format, journal_info,
                   summarizer, journal_data>>
    /\ UNCHANGED <<fvars, pvars, xvars>>

\* the conditions of the five formats (0: the else branch)
Holds(n, wd, completion) ==
    CASE n = 1 -> In("call_id", wd) /\ In("transcript", wd)
      [] n = 2 -> /\ In("id", wd) /\ In("conversation", wd)
                  /\ Get(wd, "conversation", Null).t = "dict"
      [] n = 3 -> In("call_sid", wd) /\ In("call_data", wd)
      [] n = 4 -> /\ In("history_item_id", wd) /\ In("transcript", wd)
                  /\ Get(wd, "transcript", Null).t = "list"
      [] n = 5 -> In("event", wd) /\ completion
      [] OTHER -> FALSE

\* a plausible slip: the history format is tried before the simple format
FormatOrder_HistoryFirst == <<4, 1, 2, 3, 5>>

\* the order of the if / elif chain
FormatOrder == <<1, 2, 3, 4, 5>>

\* the branch of the if / elif / else chain taken
RECURSIVE FirstMatch(_, _, _)
FirstMatch(order, wd, completion) ==
    IF order = <<>> THEN 0
    ELSE IF Holds(Head(order), wd, completion) THEN Head(order)
    ELSE FirstMatch(Tail(order), wd, completion)

\* what a branch gives: id, created_at and conversation, or an exception
Info(ok, id, created_at, conversation) ==
    [ok |-> ok, id |-> id, created_at |-> created_at, conversation |-> conversation]

\* Format 1: Simple format with basic journal information
Format1Info(wd) ==
    Info(TRUE,
         Get(wd, "call_id", Null),
         Or(Get(wd, "timestamp", Null), Str(NowIso)),
         Or(Get(wd, "transcript", Null), Str("")))

\* Format 2: ElevenLabs conversation format
Format2Info(wd) ==
    LET messages == Get(Get(wd, "conversation", EmptyDict), "messages", List(<<>>))
        transcript == Render(messages, "role", "content", FALSE)
        metadata == Get(wd, "metadata", EmptyDict)
    IN  Info(transcript /= Raised /\ metadata.t = "dict",
             Get(wd, "id", Null),
             Or(Get(wd, "created_at", Null), Str(NowIso)),
             Stripped(transcript))

\* Format 3: Twilio-style format
Format3Info(wd) ==
    LET call_data_obj == Get(wd, "call_data", EmptyDict)
    IN  Info(call_data_obj.t = "dict",
             Get(wd, "call_sid", Null),
             Or(Get(wd, "timestamp", Null), Str(NowIso)),
             Get(call_data_obj, "transcript", Str("")))

\* Format 4: History format with transcript array
Format4Info(wd) ==
    LET transcript == Render(Get(wd, "transcript", List(<<>>)), "speaker", "text", FALSE)
        call_details == Get(wd, "call_details", EmptyDict)
    IN  Info(transcript /= Raised /\ call_details.t = "dict",
             Get(wd, "history_item_id", Null),
             Or(Get(wd, "date", Null), Str(NowIso)),
             Or(Stripped(transcript), Get(wd, "text", Str(""))))

\* if isinstance(x, dict) and "messages" in x: the messages rendered
MessagesText(x) ==
    IF x.t = "dict" /\ In("messages", x)
    THEN Stripped(Render(Get(x, "messages", List(<<>>)), "role", "content", FALSE))
    ELSE x

\* Format 5: ElevenLabs journal completion webhook
Format5Info(wd) ==
    LET call_data_obj == Or(Or(Get(wd, "call", EmptyDict), Get(wd, "data", EmptyDict)),
                            EmptyDict)
        transcript == MessagesText(Or(Get(wd, "transcript", Str("")),
                                      Get(call_data_obj, "transcript", Str(""))))
    IN  Info(call_data_obj.t = "dict" /\ transcript /= Raised,
             Or(Or(Get(call_data_obj, "id", Null), Get(wd, "call_id", Null)),
                Str(JournalId)),
             Or(Or(Get(call_data_obj, "created_at", Null), Get(wd, "timestamp", Null)),
                Str(NowIso)),
             transcript)

\* Fallback: Try to extract whatever we can
FallbackInfo(wd) ==
    LET journal_id == Or(Or(Or(Or(Get(wd, "call_id", Null), Get(wd, "id", Null)),
                               Get(wd, "call_sid", Null)),
                            Get(wd, "history_item_id", Null)),
                         Str(JournalId))
        created_at == Or(Or(Or(Get(wd, "timestamp", Null), Get(wd, "created_at", Null)),
                            Get(wd, "date", Null)),
                         Str(NowIso))
        found == Or(Or(Or(Get(wd, "transcript", Null), Get(wd, "text", Null)),
                       Get(wd, "conversation", Null)),
                    Str(""))
        conversation ==
            IF found.t = "dict" /\ In("messages", found) THEN MessagesText(found)
            ELSE IF found.t = "list"
            THEN Stripped(Render(found, "speaker", "text", TRUE))
            ELSE found
    IN  Info(conversation /= Raised, journal_id, created_at, conversation)

\* one branch of the chain: journal_info = {"id": ..., "created_at": ..., ...}
NormalizeAs(n, info) ==
    /\ w_pc = "match"
    /\ FirstMatch(FormatOrder, webhook_data, is_completion) = n
    /\ format' = n
    /\ IF info.ok
       THEN /\ journal_info' = [journal_info EXCEPT !.id = info.id,
                                                    !.created_at = info.created_at,
                                                    !.conversation = info.conversation]
            /\ w_pc' = "date"
            /\ UNCHANGED <<w_raised, w_ret>>
       ELSE ToExcept /\ UNCHANGED journal_info
    /\ UNCHANGED <<webhook_data, OPENAI_API_KEY, is_completion, collected_data,
                   major_events, mood, insights, action_items, summarizer,
                   journal_data>>
    /\ UNCHANGED <<fvars, pvars, xvars>>

Format1 == NormalizeAs(1, Format1Info(webhook_data))
Format2 == NormalizeAs(2, Format2Info(webhook_data))
Format3 == NormalizeAs(3, Format3Info(webhook_data))
Format4 == NormalizeAs(4, Format4Info(webhook_data))
Format5 == NormalizeAs(5, Format5Info(webhook_data))
Fallback0 == NormalizeAs(0, FallbackInfo(webhook_data))

\* Format date for CSV
SetDate ==
    /\ w_pc = "date"
    /\ journal_info' = [journal_info EXCEPT !.date = Str(DateOf(journal_info.created_at))]
    /\ w_pc' = "fields"
    /\ UNCHANGED <<webhook_data, OPENAI_API_KEY, is_completion, collected_data,
                   major_events, mood, insights, action_items, format, summarizer,
                   w_raised, journal_data, w_ret>>
    /\ UNCHANGED <<fvars, pvars, xvars>>

\* history_item_id, text, and the collected fields that are truthy
AddFields ==
    /\ w_pc = "fields"
    /\ journal_info' =
          [journal_info EXCEPT
              !.history_item_id = journal_info.id,
              !.text = journal_info.conversation,
              !.major_events = IF Truthy(major_events) THEN major_events ELSE @,
              !.mood = IF Truthy(mood) THEN mood ELSE @,
              !.insights = IF Truthy(insights) THEN insights ELSE @,
              !.action_items = IF Truthy(action_items) THEN action_items ELSE @]
    /\ w_pc' = "summary"
    /\ UNCHANGED <<webhook_data, OPENAI_API_KEY, is_completion, collected_data,
                   major_events, mood, insights, action_items, format, summarizer,
                   w_raised, journal_data, w_ret>>
    /\ UNCHANGED <<fvars, pvars, xvars>>

\* a plausible slip: summarize_text lets the exception of the API call out
SummarizerCatches_No == FALSE

\* summarize_text: try: ... except Exception as e: return "Error generating summary"
SummarizerCatches == TRUE

\* if journal_info["conversation"] and OPENAI_API_KEY and not journal_info.get("summary")
CallsSummarizer(info, key) ==
    Truthy(info.conversation) /\ key /\ ~Truthy(info.summary)

\* the summary of the entry: summarize_text answers or fails
Summarize ==
    /\ w_pc = "summary"
    /\ IF CallsSummarizer(journal_info, OPENAI_API_KEY)
       THEN \E outcome \in {"answered", "failed"} :
               /\ summarizer' = outcome
               /\ IF outcome = "failed" /\ ~SummarizerCatches
                  THEN ToExcept /\ UNCHANGED journal_info
                  ELSE /\ journal_info' =
                             [journal_info EXCEPT !.summary =
                                 IF outcome = "answered" THEN Str("Moved house; happy.")
                                 ELSE Str("Error generating summary")]
                       /\ w_pc' = "save"
                       /\ UNCHANGED <<w_raised, w_ret>>
       ELSE /\ journal_info' =
                  [journal_info EXCEPT !.summary =
                      IF ~Truthy(@) THEN Str("No summary available") ELSE @]
            /\ w_pc' = "save"
            /\ UNCHANGED <<summarizer, w_raised, w_ret>>
    /\ UNCHANGED <<webhook_data, OPENAI_API_KEY, is_completion, collected_data,
                   major_events, mood, insights, action_items, format, journal_data>>
    /\ UNCHANGED <<fvars, pvars, xvars>>

\* journal_data.append(journal_info); rows_added = save_to_sheets(journal_data);
\* return rows_added (the stores themselves: Deliver and PersistStep)
Save ==
    /\ w_pc = "save"
    /\ journal_data' = <<journal_info>>
    /\ \E r \in {0, 1} : w_ret' = r
    /\ w_pc' = "returned"
    /\ UNCHANGED <<webhook_data, OPENAI_API_KEY, is_completion, collected_data,
                   major_events, mood, insights, action_items, format, journal_info,
                   summarizer, w_raised>>
    /\ UNCHANGED <<fvars, pvars, xvars>>

\* process_webhook_data is not called: no payload, no entry
NormalizeParked ==
    /\ w_pc = "idle"
    /\ webhook_data = <<>>
    /\ OPENAI_API_KEY = FALSE
    /\ is_completion = FALSE
    /\ collected_data = <<>>
    /\ major_events = <<>>
    /\ mood = <<>>
    /\ insights = <<>>
    /\ action_items = <<>>
    /\ format = -1
    /\ journal_info = <<>>
    /\ summarizer = "not called"
    /\ w_raised = FALSE
    /\ journal_data = <<>>
    /\ w_ret = 0

(***************************************************************************)
(* process_webhook_data run again on the same payload file: the entry and  *)
(* the row it becomes, cell by cell                                        *)
(***************************************************************************)
\* how often the payload file is processed
MaxRuns == 2
\* call.get("text", "")[:1000]
TextLimit == 1000
\* a text is modelled by its length: lengths around the limit
TextLens == {0, 1000, 1001}
\* text[:1000]
Truncate(text) == IF text > TextLimit THEN TextLimit ELSE text

Digits == <<"1", "2", "3", "4", "5", "6", "7", "8", "9">>
\* datetime.now().isoformat() at the instant t
NowIsoAt(t) == "2024-03-05T12:00:0" \o Digits[t] \o ".000000"
\* datetime.now().strftime("%Y-%m-%d %H:%M:%S") at the instant t
NowDateAt(t) == "2024-03-05 12:00:0" \o Digits[t]
\* f"journal-{int(time.time())}" at the instant t
JournalIdAt(t) == "journal-170964000" \o Digits[t]

\* the collected-data fields and the values the payloads give them
CollectedNames == {"major_events", "mood", "insights", "action_items"}
CollectedValue(f) ==
    CASE f = "major_events" -> "moved house"
      [] f = "mood" -> "happy"
      [] f = "insights" -> "sleep more"
      [] f = "action_items" -> "call mum"

\* payloads of no known shape (the else branch of the dispatch): keys "id",
\* "timestamp", "text" and "data_collection"; "" stands for a key left out
RepeatPayloads ==
    [id : {"", "a"},
     timestamp : {"", "2024-01-01T10:00:00Z", "yesterday"},
     text : TextLens,
     data_collection : SUBSET CollectedNames]

\* lines 654-664 at the instant t
DateAt(created_at, t) ==
    IF created_at = NowIsoAt(t) THEN NowDateAt(t)
    ELSE IF DateParses(created_at) THEN FormatDate(created_at)
    ELSE NowDateAt(t)

\* journal_info of a payload of no known shape processed at the instant t
\* (a collected field that is not truthy is not set: .get(f, "") reads "")
InfoAt(wd, t) ==
    LET journal_id == IF wd.id /= "" THEN wd.id ELSE JournalIdAt(t)
        created_at == IF wd.timestamp /= "" THEN wd.timestamp ELSE NowIsoAt(t)
    IN  [id |-> journal_id,
         created_at |-> created_at,
         date |-> DateAt(created_at, t),
         history_item_id |-> journal_id,
         conversation |-> wd.text,
         text |-> wd.text,
         major_events |-> IF "major_events" \in wd.data_collection
                          THEN CollectedValue("major_events") ELSE "",
         mood |-> IF "mood" \in wd.data_collection THEN CollectedValue("mood") ELSE "",
         insights |-> IF "insights" \in wd.data_collection
                      THEN CollectedValue("insights") ELSE "",
         action_items |-> IF "action_items" \in wd.data_collection
                          THEN CollectedValue("action_items") ELSE ""]

\* fromisoformat and strftime of save_to_sheets on the date of an entry: a
\* date already in "%Y-%m-%d %H:%M:%S" parses and formats to itself
FormatAgain(date) == IF date \in RawDates THEN FormatDate(date) ELSE date

\* the header rows in full (a Text cell is its length); Duration and Summary
\* are left out of the rows
FullSheetHeader ==
    [date |-> "Date", id |-> "Call ID", text |-> 4, major_events |-> "Major Events",
     call_summary |-> "Call Summary", action_items |-> "Action Items",
     customer_sentiment |-> "Customer Sentiment"]
FullCsvHeader ==
    [date |-> "Date", id |-> "ID", text |-> 4, major_events |-> "Major Events",
     mood |-> "Mood", insights |-> "Insights", action_items |-> "Action Items"]

\* sheet.append_row([...]) of save_to_sheets; the entry has no call_summary
\* and no customer_sentiment
FullSheetRow(call) ==
    [date |-> FormatAgain(call.date), id |-> call.history_item_id,
     text |-> Truncate(call.text), major_events |-> call.major_events,
     call_summary |-> "", action_items |-> call.action_items,
     customer_sentiment |-> ""]

\* row = {...} of save_to_csv
FullCsvRow(item) ==
    [date |-> item.date, id |-> IF item.id /= "" THEN item.id ELSE item.history_item_id,
     text |-> IF item.conversation /= 0 THEN item.conversation ELSE item.text,
     major_events |-> item.major_events, mood |-> item.mood,
     insights |-> item.insights, action_items |-> item.action_items]

RepeatParked ==
    /\ r_pc = "idle"
    /\ r_payload = <<>>
    /\ r_now = 0
    /\ r_info = <<>>
    /\ r_sheet = <<>>
    /\ r_csv = <<>>
    /\ r_log = <<>>

\* lines 446-690: the entry of the payload at the instant of the run
Build ==
    /\ r_pc = "start"
    /\ r_info' = InfoAt(r_payload, r_now)
    /\ r_pc' = "built"
    /\ UNCHANGED <<r_payload, r_now, r_sheet, r_csv, r_log>>
    /\ UNCHANGED <<fvars, pvars, nvars, hvars, mvars>>

\* save_to_sheets([journal_info]) with the sheet at hand: header if the sheet
\* is empty, the stored keys, skip or append
SaveSheet ==
    /\ r_pc = "built"
    /\ LET headed == IF r_sheet = <<>> THEN <<FullSheetHeader>> ELSE r_sheet
           key == <<FormatAgain(r_info.date), r_info.history_item_id>>
           new == IF key \in get_existing_entries(headed) THEN <<>>
                  ELSE <<FullSheetRow(r_info)>>
       IN  /\ r_sheet' = headed \o new
           /\ r_log' = Append(r_log, [store |-> "sheet", rows |-> new])
    /\ r_pc' = "saved"
    /\ UNCHANGED <<r_payload, r_now, r_info, r_csv>>
    /\ UNCHANGED <<fvars, pvars, nvars, hvars, mvars>>

\* save_to_sheets([journal_info]) with the sheet out of reach: save_to_csv
SaveCsv ==
    /\ r_pc = "built"
    /\ LET headed == IF r_csv = <<>> THEN <<FullCsvHeader>> ELSE r_csv
           item_id == IF r_info.id /= "" THEN r_info.id ELSE r_info.history_item_id
           new == IF item_id \in CsvExistingIds(r_csv) THEN <<>>
                  ELSE <<FullCsvRow(r_info)>>
       IN  /\ r_csv' = headed \o new
           /\ r_log' = Append(r_log, [store |-> "csv", rows |-> new])
    /\ r_pc' = "saved"
    /\ UNCHANGED <<r_payload, r_now, r_info, r_sheet>>
    /\ UNCHANGED <<fvars, pvars, nvars, hvars, mvars>>

\* the same payload file is processed again, later
Again ==
    /\ r_pc = "saved"
    /\ Len(r_log) < MaxRuns
    /\ r_now' = r_now + 1
    /\ r_pc' = "start"
    /\ r_info' = <<>>
    /\ UNCHANGED <<r_payload, r_sheet, r_csv, r_log>>
    /\ UNCHANGED <<fvars, pvars, nvars, hvars, mvars>>

(***************************************************************************)
(* webhook_handler.py: POST /webhook                                       *)
(***************************************************************************)
\* how many POSTs the server answers
MaxRequests == 2
\* def main(): the parameters of perplexity_summarize.main
MainParams == 0
\* summarize_main(args): the arguments of the call
MainArgsPassed == 1

\* the bodies: not JSON at all (under a JSON content type, or under another
\* one), JSON that is no object, and objects with or without conversation_id
BodyKinds == {"malformed", "not_json_type", "null", "list", "empty_object", "object"}
Bodies ==
    {[kind |-> k, conversation_id |-> "", save_to_sheets |-> TRUE, save_to_csv |-> TRUE] :
        k \in BodyKinds}
    \cup [kind : {"object"}, conversation_id : {"c1"},
          save_to_sheets : BOOLEAN, save_to_csv : BOOLEAN]

\* jsonify(...), code
Response(outcome, code, message) == [status |-> outcome, code |-> code, message |-> message]

\* request.json: the parsed body; Flask raises BadRequest for a body that
\* does not parse, and for a body of another content type either returns
\* None or raises UnsupportedMediaType, depending on its version
JsonOutcomes(body) ==
    CASE body.kind = "malformed" -> {"raises"}
      [] body.kind = "not_json_type" -> {"none", "raises"}
      [] OTHER -> {"value"}

\* not data or not isinstance(data, dict)
IsInvalid(d) == d = <<>> \/ d[1].kind \in {"null", "list", "empty_object"}

\* a call of a function of the given parameters with the given arguments
\* raises TypeError unless they match; else the function runs
CallRaisesTypeError(params, passed) == params /= passed

\* perplexity_summarize.main run to its end: 0, or 1 when a key or the
\* conversation is missing
MainReturns(pipeline_ok) == IF pipeline_ok THEN 0 ELSE 1

HandlerParked ==
    /\ h_pc = "idle"
    /\ summarize_available = FALSE
    /\ h_request = <<>>
    /\ data = <<>>
    /\ h_args = <<>>
    /\ h_responses = <<>>
    /\ h_escaped = FALSE
    /\ h_served = 0

\* return jsonify(...), code
Respond(r) ==
    /\ h_responses' = Append(h_responses, r)
    /\ h_pc' = "responded"
    /\ h_served' = h_served + 1

\* a POST arrives
Receive ==
    /\ h_pc \in {"idle", "responded"}
    /\ h_served < MaxRequests
    /\ \E b \in Bodies, ok \in BOOLEAN : h_request' = [body |-> b, pipeline_ok |-> ok]
    /\ h_pc' = "received"
    /\ data' = <<>>
    /\ h_args' = <<>>
    /\ h_responses' = <<>>
    /\ UNCHANGED <<summarize_available, h_escaped, h_served>>
    /\ UNCHANGED <<fvars, pvars, nvars, rvars, mvars>>

\* data = request.json, inside the outer try
ReadJson ==
    /\ h_pc = "received"
    /\ \E o \in JsonOutcomes(h_request.body) :
          IF o = "raises"
          THEN /\ Respond(Response("error", 500, "Exception handling webhook"))
               /\ UNCHANGED data
          ELSE /\ data' = IF o = "none" THEN <<>> ELSE <<h_request.body>>
               /\ h_pc' = "parsed"
               /\ UNCHANGED <<h_responses, h_served>>
    /\ UNCHANGED <<summarize_available, h_request, h_args, h_escaped>>
    /\ UNCHANGED <<fvars, pvars, nvars, rvars, mvars>>

\* the two validations
Validate ==
    /\ h_pc = "parsed"
    /\ IF IsInvalid(data)
       THEN Respond(Response("error", 400, "Invalid request data"))
       ELSE IF data[1].conversation_id = ""
       THEN Respond(Response("error", 400, "Missing conversation_id"))
       ELSE h_pc' = "validated" /\ UNCHANGED <<h_responses, h_served>>
    /\ UNCHANGED <<summarize_available, h_request, data, h_args, h_escaped>>
    /\ UNCHANGED <<fvars, pvars, nvars, rvars, mvars>>

\* if not summarize_available: 500; else the arguments of the pipeline
Prepare ==
    /\ h_pc = "validated"
    /\ IF ~summarize_available
       THEN /\ Respond(Response("error", 500, "Summarization is not available"))
            /\ UNCHANGED h_args
       ELSE /\ h_args' = <<[conversation_id |-> data[1].conversation_id,
                            save_to_sheets |-> data[1].save_to_sheets,
                            save_to_csv |-> data[1].save_to_csv,
                            csv_file |-> "journal_entries.csv"]>>
            /\ h_pc' = "ready"
            /\ UNCHANGED <<h_responses, h_served>>
    /\ UNCHANGED <<summarize_available, h_request, data, h_escaped>>
    /\ UNCHANGED <<fvars, pvars, nvars, rvars, mvars>>

\* result = summarize_main(args) and the response made of it
RunSummarization ==
    /\ h_pc = "ready"
    /\ IF CallRaisesTypeError(MainParams, MainArgsPassed)
       THEN Respond(Response("error", 500, "Exception during summarization"))
       ELSE IF MainReturns(h_request.pipeline_ok) = 0
       THEN Respond(Response("success", 200, "Summarization completed successfully"))
       ELSE Respond(Response("error", 500, "Summarization failed with exit code"))
    /\ UNCHANGED <<summarize_available, h_request, data, h_args, h_escaped>>
    /\ UNCHANGED <<fvars, pvars, nvars, rvars, mvars>>

(***************************************************************************)
(* perplexity_summarize.py: one run of main after the other                *)
(***************************************************************************)
\* how many runs of the pipeline
MaxPipelineRuns == 2

\* the file save_to_csv of sheets.py writes, and another --csv-file
CsvFiles == {"journal_entries.csv", "other.csv"}
Conversations == {"c1", "c2"}

\* fieldnames of save_to_csv in sheets.py
SheetsFieldnames ==
    <<"Date", "ID", "Duration (sec)", "Summary", "Text", "Major Events", "Mood",
      "Insights", "Action Items">>
\* headers of save_to_csv in perplexity_summarize.py
PerplexityHeaders ==
    <<"Date", "Conversation ID", "Duration", "Summary", "Text", "Major Events",
      "Insights", "Action Items", "Mood">>

\* a line csv.DictWriter writes: the header, or a row whose cells follow the
\* field names of its writer (of the cells only the id, the second, is kept)
HeaderLine(fields) == [header |-> TRUE, fields |-> fields, id |-> fields[2]]
DataLine(fields, id) == [header |-> FALSE, fields |-> fields, id |-> id]

\* the command lines
ArgsSet ==
    [conversation_id : Conversations, save_to_sheets : BOOLEAN,
     save_to_csv : BOOLEAN, csv_file : CsvFiles]

\* sheets.py save_to_csv: existing_ids, read under the names of the first line
SheetsExistingIds(file) ==
    IF file = <<>> THEN {}
    ELSE IF \E k \in DOMAIN file[1].fields : file[1].fields[k] \in {"Call ID", "ID"}
         THEN {file[i].id : i \in 2..Len(file)}
         ELSE {}

\* sheets.py save_to_csv on journal_entries.csv for the one entry
sheets_save_to_csv(file, item_id) ==
    LET headed == IF file = <<>> THEN <<HeaderLine(SheetsFieldnames)>> ELSE file
    IN  IF item_id \in SheetsExistingIds(file) THEN headed
        ELSE Append(headed, DataLine(SheetsFieldnames, item_id))

\* perplexity_summarize.py save_to_csv on csv_file for the one entry
save_to_csv(file, entry_id) ==
    LET headed == IF file = <<>> THEN <<HeaderLine(PerplexityHeaders)>> ELSE file
    IN  Append(headed, DataLine(PerplexityHeaders, entry_id))

\* the data rows of a file
DataRows(file) == {i \in DOMAIN file : ~file[i].header}

PipelineParked ==
    /\ m_pc = "idle"
    /\ args = <<>>
    /\ sheets_available = FALSE
    /\ conversation_data = <<>>
    /\ files = <<>>
    /\ m_sheet = <<>>
    /\ m_before = 0
    /\ m_ret = 0
    /\ m_runs = 0

\* the API keys, get_conversation_details, and the steps up to save_to_file
GetAndSummarize ==
    /\ m_pc = "start"
    /\ \E got \in BOOLEAN :
          IF got
          THEN /\ conversation_data' = <<args.conversation_id>>
               /\ m_pc' = "summarized"
               /\ UNCHANGED m_ret
          ELSE /\ conversation_data' = <<>>
               /\ m_ret' = 1
               /\ m_pc' = "done"
    /\ UNCHANGED <<args, sheets_available, files, m_sheet, m_before, m_runs>>
    /\ UNCHANGED <<fvars, pvars, nvars, rvars, hvars>>

\* if args.save_to_sheets: save_to_sheets(sheet_data), which appends to the
\* sheet, or falls back to save_to_csv of sheets.py, or fails in it
SheetsStep ==
    /\ m_pc = "summarized"
    /\ IF args.save_to_sheets /\ sheets_available
       THEN \E outcome \in {"sheet", "fallback", "fallback fails"} :
               /\ m_sheet' = IF outcome = "sheet"
                             THEN Append(m_sheet, conversation_data[1]) ELSE m_sheet
               /\ files' = IF outcome = "fallback"
                           THEN [files EXCEPT !["journal_entries.csv"] =
                                    sheets_save_to_csv(@, conversation_data[1])]
                           ELSE files
       ELSE UNCHANGED <<m_sheet, files>>
    /\ m_pc' = "sheets_done"
    /\ UNCHANGED <<args, sheets_available, conversation_data, m_before, m_ret, m_runs>>
    /\ UNCHANGED <<fvars, pvars, nvars, rvars, hvars>>

\* if args.save_to_csv: save_to_csv(sheet_data, args.csv_file); return 0
CsvStep ==
    /\ m_pc = "sheets_done"
    /\ IF args.save_to_csv
       THEN \E written \in BOOLEAN :
               files' = IF written
                        THEN [files EXCEPT ![args.csv_file] =
                                 save_to_csv(@, conversation_data[1])]
                        ELSE files
       ELSE UNCHANGED files
    /\ m_ret' = 0
    /\ m_pc' = "done"
    /\ UNCHANGED <<args, sheets_available, conversation_data, m_sheet, m_before, m_runs>>
    /\ UNCHANGED <<fvars, pvars, nvars, rvars, hvars>>

\* the next run, of any command line
NextRun ==
    /\ m_pc = "done"
    /\ m_runs < MaxPipelineRuns
    /\ args' \in ArgsSet
    /\ conversation_data' = <<>>
    /\ m_before' = Cardinality(DataRows(files["journal_entries.csv"]))
    /\ m_ret' = 0
    /\ m_runs' = m_runs + 1
    /\ m_pc' = "start"
    /\ UNCHANGED <<sheets_available, files, m_sheet>>
    /\ UNCHANGED <<fvars, pvars, nvars, rvars, hvars>>

\* one payload from the payloads, with or without the OpenAI key
NormalizeInit ==
    /\ FetchVarsInit("idle")
    /\ PersistVarsInit(<<>>, <<>>, [p \in Procs |-> 0])
    /\ RepeatParked
    /\ HandlerParked
    /\ PipelineParked
    /\ \E wd \in Payloads, key \in BOOLEAN : NormalizeVarsInit("start", wd, key)

NormalizeNext ==
    \/ DetectEvent \/ CollectData
    \/ Format1 \/ Format2 \/ Format3 \/ Format4 \/ Format5 \/ Fallback0
    \/ SetDate \/ AddFields \/ Summarize \/ Save

NormalizeSpec == NormalizeInit /\ [][NormalizeNext]_vars


\* calls made one after the other by one caller, from empty stores
PersistInit ==
    /\ FetchVarsInit("idle")
    /\ NormalizeParked
    /\ RepeatParked
    /\ HandlerParked
    /\ PipelineParked
    /\ PersistVarsInit(<<>>, <<>>, [p \in Procs |-> IF p = 1 THEN MaxEntries ELSE 0])

PersistNext == \E p \in Procs : StartCall(p) \/ PersistStep(p)

PersistSpec == PersistInit /\ [][PersistNext]_vars

\* the sheet two overlapping calls may find
InitialSheets == {<<>>, <<SheetHeader, [date |-> "2024-01-01 10:00:00", id |-> "b"]>>}

ConcurrentInit ==
    /\ FetchVarsInit("idle")
    /\ NormalizeParked
    /\ RepeatParked
    /\ HandlerParked
    /\ PipelineParked
    /\ \E s0 \in InitialSheets : PersistVarsInit(s0, <<>>, [p \in Procs |-> MaxConcBatch])

ConcurrentNext == \E p \in Procs : Deliver(p) \/ PersistStep(p)

ConcurrentSpec == ConcurrentInit /\ [][ConcurrentNext]_vars

FetchInit ==
    /\ FetchVarsInit("run")
    /\ PersistVarsInit(<<>>, <<>>, [p \in Procs |-> 0])
    /\ NormalizeParked
    /\ RepeatParked
    /\ HandlerParked
    /\ PipelineParked

FetchSpec == FetchInit /\ [][FetchNext]_vars

\* the function runs on: no request waits forever for its answer or its failure
FairFetchSpec == FetchSpec /\ WF_vars(FetchNext)

\* one payload file, processed at the first instant, both stores empty
RepeatInit ==
    /\ FetchVarsInit("idle")
    /\ PersistVarsInit(<<>>, <<>>, [p \in Procs |-> 0])
    /\ NormalizeParked
    /\ HandlerParked
    /\ PipelineParked
    /\ r_pc = "start"
    /\ r_payload \in RepeatPayloads
    /\ r_now = 1
    /\ r_info = <<>>
    /\ r_sheet = <<>>
    /\ r_csv = <<>>
    /\ r_log = <<>>

RepeatNext == Build \/ SaveSheet \/ SaveCsv \/ Again

RepeatSpec == RepeatInit /\ [][RepeatNext]_vars

\* the server is up, with or without the summarizer imported
HandlerInit ==
    /\ FetchVarsInit("idle")
    /\ PersistVarsInit(<<>>, <<>>, [p \in Procs |-> 0])
    /\ NormalizeParked
    /\ RepeatParked
    /\ PipelineParked
    /\ h_pc = "idle"
    /\ summarize_available \in BOOLEAN
    /\ h_request = <<>>
    /\ data = <<>>
    /\ h_args = <<>>
    /\ h_responses = <<>>
    /\ h_escaped = FALSE
    /\ h_served = 0

HandlerNext == Receive \/ ReadJson \/ Validate \/ Prepare \/ RunSummarization

HandlerSpec == HandlerInit /\ [][HandlerNext]_vars

\* the first run, no CSV file on disk, the sheet empty
PipelineInit ==
    /\ FetchVarsInit("idle")
    /\ PersistVarsInit(<<>>, <<>>, [p \in Procs |-> 0])
    /\ NormalizeParked
    /\ RepeatParked
    /\ HandlerParked
    /\ m_pc = "start"
    /\ args \in ArgsSet
    /\ sheets_available \in BOOLEAN
    /\ conversation_data = <<>>
    /\ files = [f \in CsvFiles |-> <<>>]
    /\ m_sheet = <<>>
    /\ m_before = 0
    /\ m_ret = 0
    /\ m_runs = 1

PipelineNext == GetAndSummarize \/ SheetsStep \/ CsvStep \/ NextRun

PipelineSpec == PipelineInit /\ [][PipelineNext]_vars




(***************************************************************************)
(* Properties of get_call_history                                          *)
(***************************************************************************)
IsReq(ev) == ev[1] = "req"
IsFail(ev) == ev[1] = "req" /\ ev[3] = "fail"
IsRateLimited(ev) == ev[1] = "req" /\ ev[3] = "429"
IsSleep(ev) == ev[1] = "sleep"
\* positions of the events of L that satisfy Test
ReqPos(L) == {i \in DOMAIN L : IsReq(L[i])}
FailPos(L) == {i \in DOMAIN L : IsFail(L[i])}
SleepPos(L) == {i \in DOMAIN L : IsSleep(L[i])}
\* the transport failures of L up to position i
FailsUpTo(L, i) == Cardinality({j \in FailPos(L) : j <= i})

\* C1: the endpoints are tried in their fixed order and the first endpoint that
\* yields an item wins: no endpoint after the current one has been sent a
\* request, every endpoint before it has been tried, the returned list holds
\* items of the winning endpoint only, in the order received, and the function
\* returns as soon as the list is not empty.
C1_FirstSuccessWins ==
    /\ \A e \in Endpoints : /\ e > endpoint => reqs[e] = 0
                            /\ e < endpoint => reqs[e] >= 1
    /\ \A i \in DOMAIN history : history[i][1] = endpoint
    /\ \A i, j \in DOMAIN history :
          i < j => \/ history[i][2] < history[j][2]
                   \/ history[i][2] = history[j][2] /\ history[i][3] < history[j][3]
    /\ history /= <<>> => f_pc = "done"

\* C1 witness: endpoint 1 answered 404, endpoint 2 one page of 3 items with
\* has_more false; those 3 items are returned, endpoints 3 and 4 were not called.
C1_Witness ==
    /\ f_pc = "done"
    /\ prevLog = <<ReqEv(1, "404")>>
    /\ log = <<ReqEv(1, "ok")>>
    /\ endpoint = 2
    /\ ~lastSignal
    /\ history = PageItems(2, 1, 3)
    /\ reqs = <<1, 1, 0, 0>>

\* C2: a page with items that signals more pages is followed by a request for
\* the next page: the function does not return while the last page it took
\* had items and signalled that more pages exist.
C2_Paginates == f_pc = "done" => ~lastSignal

\* C3: a 429 response does not use up an attempt of the retry budget: the
\* attempts used on the current page are its transport failures only, and an
\* endpoint is never left on a rate-limit response.
C3_RateLimitKeepsBudget ==
    /\ f_pc = "run" => attempt = Cardinality(FailPos(log))
    /\ \A L \in {log, prevLog} :
          \A i \in ReqPos(L) :
             IsRateLimited(L[i]) => \E j \in ReqPos(L) : j > i

\* the part of C3 the code does: a 429 is followed at once by a sleep of the
\* Retry-After duration, 60 seconds when the header is absent
RateLimitSleeps ==
    \A L \in {log, prevLog} :
       \A i \in ReqPos(L) :
          IsRateLimited(L[i]) =>
             /\ i + 1 \in SleepPos(L)
             /\ L[i + 1][2] \in {DefaultRetryAfter, SomeRetryAfter}

\* C4: the transport failures of one page request are retried with sleeps of
\* 1 second after the first failure and 2 seconds after the second, at most
\* 3 requests are sent, a third request comes after two sleeps, and the third
\* failure (and only the third) leaves the endpoint with no sleep after it.
C4_BackoffSchedule ==
    \A L \in {log, prevLog} :
       /\ Cardinality(ReqPos(L)) <= max_retries
       /\ \A i \in FailPos(L) :
             /\ FailsUpTo(L, i) = 1 => i + 1 \in SleepPos(L) /\ L[i + 1][2] = 1
             /\ FailsUpTo(L, i) = 2 => i + 1 \in SleepPos(L) /\ L[i + 1][2] = 2
             /\ FailsUpTo(L, i) = 3 => i = Len(L) /\ (L = prevLog \/ f_pc = "done")
       /\ \A i \in ReqPos(L) :
             Cardinality({j \in ReqPos(L) : j <= i}) = 3 =>
                Cardinality({j \in SleepPos(L) : j < i}) = 2
       /\ (L /= <<>> /\ IsFail(L[Len(L)])) => Cardinality(FailPos(L)) = 3

\* what the code does on transport failures: the failure of attempt a (a = 0, 1)
\* is followed by a sleep of 2^a seconds, where a counts the rate-limited
\* requests before it too; a failure of the last attempt ends the log
BackoffByAttempt ==
    \A L \in {log, prevLog} :
       /\ Cardinality(ReqPos(L)) <= max_retries
       /\ \A i \in FailPos(L) :
             LET a == Cardinality({j \in ReqPos(L) : j < i})
             IN  IF a < max_retries - 1
                 THEN i + 1 \in SleepPos(L) /\ L[i + 1][2] = Pow2(a)
                 ELSE i = Len(L)

\* C5: no exception leaves get_call_history; an endpoint that fails produced
\* nothing and the next endpoint is tried; when the function has returned an
\* empty list, every endpoint was tried and none gave an item.
C5_NeverRaises ==
    /\ ~raised
    /\ f_pc = "done" /\ history = <<>> =>
          /\ endpoint = NumEndpoints
          /\ \A e \in Endpoints : reqs[e] >= 1
    /\ f_pc = "run" => history = <<>> /\ reqs[endpoint] < max_retries
    /\ (f_pc = "done" /\ log /= <<>> /\ log[Len(log)][3] \in {"404", "bad", "fail"})
          => history = <<>>

\* C5 witness: the four endpoints failed in four ways (404, an unexpected
\* exception, an error status on every attempt, rate limits) and the function
\* returned the empty list
C5_Witness ==
    /\ f_pc = "done"
    /\ history = <<>>
    /\ reqs[1] = 1 /\ reqs[2] = 1 /\ reqs[3] = 3 /\ reqs[4] = 3
    /\ prevLog /= <<>> /\ IsFail(prevLog[Len(prevLog)])
    /\ Cardinality({i \in ReqPos(log) : IsRateLimited(log[i])}) = 3

(***************************************************************************)
(* Properties of save_to_sheets and save_to_csv                            *)
(***************************************************************************)
RowKey(r) == <<r.date, r.id>>
\* the rows of a store with key k
Count(rows, k) == Cardinality({i \in DOMAIN rows : RowKey(rows[i]) = k})
\* the entries of batch b whose date parses and whose key is k
Occ(b, k) ==
    Cardinality({i \in DOMAIN b : DateParses(b[i].date) /\ EntryKey(b[i]) = k})
UniqueKeys(rows) ==
    \A i, j \in DOMAIN rows : i /= j => RowKey(rows[i]) /= RowKey(rows[j])
KeysDistinct(b) ==
    \A i, j \in DOMAIN b : i /= j => EntryKey(b[i]) /= EntryKey(b[j])
WellFormed(b) == \A i \in DOMAIN b : DateParses(b[i].date)
IsPrefix(s, t) == Len(s) <= Len(t) /\ \A i \in DOMAIN s : s[i] = t[i]
Quiet(p) == pc[p] \in {"idle", "done"}

\* C6: after any sequence of calls made one after the other, no two data rows
\* of a store share the composite key (date, id), whatever the batches were.
C6_UniqueKeys ==
    Quiet(1) => UniqueKeys(SheetData) /\ UniqueKeys(CsvData)

\* the store of the previous call held, before that call, nothing the batch
\* would be taken to duplicate (a key in the sheet, an id in the file)
PrevWasFresh ==
    LET before == prev.rows - prev.wrote
    IN  IF prev.store = "csv"
        THEN \A i \in 1..before, j \in DOMAIN prev.batch :
                CsvData[i].id /= prev.batch[j].id
        ELSE \A i \in 1..before, j \in DOMAIN prev.batch :
                RowKey(SheetData[i]) /= EntryKey(prev.batch[j])

\* the call just finished repeats the call before it: the same batch of
\* well-formed entries with pairwise distinct keys, to the same store, no read
\* or append failing in either call
RepeatsPrev ==
    /\ pc[1] = "done"
    /\ prev.batch = calls[1]
    /\ prev.store = StoreOf(1)
    /\ prev.clean /\ ~faults[1] /\ ~failed[1]
    /\ WellFormed(calls[1])
    /\ KeysDistinct(calls[1])

\* C7: persisting the same batch (pairwise distinct keys) twice in a row to
\* the same store: the second call appends nothing and returns 0, and the
\* first call appended one row per entry when none of them was stored before.
C7_Idempotent ==
    RepeatsPrev =>
       /\ ret[1] = 0
       /\ wrote[1] = <<0, 0>>
       /\ prev.rows = (IF StoreOf(1) = "csv" THEN Len(CsvData) ELSE Len(SheetData))
       /\ PrevWasFresh => prev.ret = Len(calls[1]) /\ prev.wrote = Len(calls[1])

\* C7 witness: a two-entry batch was persisted twice to the empty sheet, which
\* now holds exactly 2 data rows
C7_Witness ==
    /\ RepeatsPrev
    /\ Len(calls[1]) = 2
    /\ StoreOf(1) = "sheet"
    /\ prev.ret = 2
    /\ ret[1] = 0
    /\ Len(SheetData) = 2

\* C8: two calls that overlap on the sheet each use the keys that were in the
\* sheet when they read it; no row stored before is lost or changed; when both
\* calls are done (no read or append failed), every entry given to either call
\* is in the sheet at least once, at most once per call that was given it, and
\* not again when it was stored before the calls.
C8_ConcurrentCalls ==
    /\ IsPrefix(sheet0, sheet)
    /\ \A p \in Procs :
          (pc[p] \in {"loop", "done"} /\ StoreOf(p) = "sheet" /\ ~faults[p]) =>
             /\ readAt[p] <= Len(sheet)
             /\ existing_entries[p] = {RowKey(sheet[i]) : i \in 1..readAt[p]}
    /\ (\A p \in Procs : pc[p] = "done" /\ StoreOf(p) = "sheet" /\ ~faults[p]) =>
          \A p \in Procs : \A i \in DOMAIN calls[p] :
             DateParses(calls[p][i].date) =>
                LET k == EntryKey(calls[p][i])
                    n == Count(SheetData, k)
                    n0 == Count(sheet0, k)
                IN  /\ n >= 1
                    /\ n <= n0 + Occ(calls[1], k) + Occ(calls[2], k)
                    /\ n0 >= 1 => n = n0

\* C8 witness: both calls were given the same new entry, both read before
\* either appended, and the sheet holds two rows with its key
C8_Witness ==
    /\ \A p \in Procs : pc[p] = "done" /\ StoreOf(p) = "sheet" /\ ~faults[p]
    /\ calls[1] = calls[2]
    /\ Len(calls[1]) = 1
    /\ readAt[1] = readAt[2]
    /\ Count(sheet0, EntryKey(calls[1][1])) = 0
    /\ Count(SheetData, EntryKey(calls[1][1])) = 2

\* C9: the data rows of one call go to one store: a call that went to the
\* fallback handed it the whole batch and appended no data row to the sheet;
\* a call that did not go to the fallback wrote no row to the file.
C9_OneStorePerCall ==
    \A p \in Procs :
       /\ ~(wrote[p][1] > 0 /\ wrote[p][2] > 0)
       /\ pc[p] \in {"csv_read", "csv_write"} => data_list[p] /= <<>>
       /\ data_list[p] /= <<>> => data_list[p] = calls[p] /\ wrote[p][1] = 0
       /\ data_list[p] = <<>> => wrote[p][2] = 0
       /\ pc[p] \in {"header", "read", "loop"} => data_list[p] = <<>>

\* C9 witness: the sheet could not be opened for a two-entry batch while it
\* held rows of an earlier call; both entries went to the file, none to the sheet
C9_Witness ==
    /\ pc[1] = "done"
    /\ Len(calls[1]) = 2
    /\ data_list[1] = calls[1]
    /\ wrote[1] = <<0, 2>>
    /\ Len(SheetData) > 0

\* C10: no entry is silently lost: after a call that returned, every entry of
\* the batch (with a date that parses) is in the sheet or in the file.
C10_NoEntryLost ==
    \A p \in Procs :
       (pc[p] = "done" /\ ~failed[p]) =>
          \A i \in DOMAIN calls[p] :
             DateParses(calls[p][i].date) =>
                \/ EntryKey(calls[p][i]) \in SheetKeys
                \/ \E j \in DOMAIN CsvData : CsvData[j] = CsvRow(calls[p][i])

\* the last save_to_csv of the call raised
FallbackFailed(p) == failed[p] \/ via[p] = "swallowed"

\* C11: when the sheet failed and the write to the CSV file failed too, the
\* caller is told so: what it gets differs from what a successful call that
\* wrote zero rows gives (no exception, 0), for main as for process_webhook_data.
C11_FallbackFailureReported ==
    \A p \in Procs :
       (pc[p] = "done" /\ FallbackFailed(p)) => <<failed[p], ret[p]>> /= <<FALSE, 0>>

\* the part of C11 the code does: the failure reaches the caller of
\* save_to_sheets itself
FallbackFailureLeavesSaveToSheets ==
    \A p \in Procs : (pc[p] = "done" /\ via[p] = "main" /\ FallbackFailed(p)) => failed[p]

\* C12: the value a call returns is the number of data rows it appended, in
\* the sheet or in the file; skipped entries, entries whose processing failed
\* and header rows are not counted.
C12_ReturnsRowsAppended ==
    \A p \in Procs :
       /\ pc[p] = "loop" => rows_added[p] = wrote[p][1]
       /\ (pc[p] = "done" /\ ~failed[p]) => ret[p] = wrote[p][1] + wrote[p][2]
       /\ wrote[p][1] + wrote[p][2] <= Len(calls[p])

\* C12 witness: a call with a stored entry, an entry whose date does not parse
\* and a new entry returned 1, and one more data row is in the sheet
C12_Witness ==
    /\ pc[1] = "done" /\ ~failed[1]
    /\ StoreOf(1) = "sheet"
    /\ Len(calls[1]) = 3
    /\ \E i \in DOMAIN calls[1] : ~DateParses(calls[1][i].date)
    /\ \E i \in DOMAIN calls[1] :
          DateParses(calls[1][i].date) /\ EntryKey(calls[1][i]) \in existing_entries[1]
    /\ ret[1] = 1
    /\ wrote[1] = <<1, 0>>
    /\ Len(SheetData) = 2

\* process_webhook_data built an entry and handed it to save_to_sheets
EntryBuilt == journal_data /= <<>>
NonEmptyStr(v) == v.t = "str" /\ v.s /= ""
\* the payload holds none of the keys an id is read from
IdKeys == {"call_id", "id", "call_sid", "history_item_id", "call", "data"}
NoIdSupplied == \A k \in IdKeys : ~In(k, webhook_data)

\* C13: every entry process_webhook_data builds has a non-empty id and a
\* non-empty date, a payload whose id key holds null or "" included; when the
\* payload holds no id, the id is made from the current time.
C13_IdAndDateNonEmpty ==
    EntryBuilt =>
       /\ NonEmptyStr(journal_data[1].id)
       /\ NonEmptyStr(journal_data[1].date)
       /\ NoIdSupplied => journal_data[1].id = Str(JournalId)

\* the part of C13 the code does: the date is never empty, and an id is made
\* when the payload has no id key
DateNonEmptyIdSynthesized ==
    EntryBuilt =>
       /\ NonEmptyStr(journal_data[1].date)
       /\ NoIdSupplied => journal_data[1].id = Str(JournalId)

\* C14: process_webhook_data never aborts on a payload: whatever the types of
\* the fields, it returns having built an entry and handed it to persistence.
C14_NeverAborts ==
    w_pc = "returned" => (~w_raised /\ EntryBuilt)

\* the formats whose condition holds for the payload
Matching == {n \in 1..5 : Holds(n, webhook_data, is_completion)}
Dispatched == format >= 0

\* C15 as stated: at most one of the five format conditions holds for a payload.
C15_MutuallyExclusive ==
    Dispatched => Cardinality(Matching) <= 1

\* C15 amended: the conditions may hold together; the formats are tried in the
\* order 1 to 5 and the first whose condition holds is the one taken, the
\* else branch only when none holds.
C15_FirstMatchWins ==
    Dispatched =>
       /\ format = 0 <=> Matching = {}
       /\ format /= 0 => (format \in Matching /\ \A m \in Matching : format <= m)

\* C15 witness: the conditions of format 1 and of format 4 both hold and
\* format 1 was taken
C15_Witness ==
    /\ EntryBuilt
    /\ {1, 4} \subseteq Matching
    /\ format = 1

\* the summary the payload supplies
PayloadSummary == Get(webhook_data, "summary", Null)

\* C16: a summary the payload supplies is kept in the entry as it is, and the
\* summarizer is not called for that payload.
C16_KeepsPayloadSummary ==
    (w_pc = "returned" /\ ~w_raised /\ Truthy(PayloadSummary)) =>
       /\ journal_data[1].summary = PayloadSummary
       /\ summarizer = "not called"

\* C17: the summarizer is called only for a non-empty conversation with the
\* key configured; an entry it was not called for has the summary
\* "No summary available"; when it fails the summary is the fixed string
\* "Error generating summary", nothing is raised and the entry is handed to
\* persistence.
C17_SummarizerNeverAborts ==
    /\ summarizer /= "not called" =>
          (Truthy(journal_info.conversation) /\ OPENAI_API_KEY)
    /\ (EntryBuilt /\ summarizer = "not called") =>
          /\ ~(Truthy(journal_info.conversation) /\ OPENAI_API_KEY)
          /\ journal_data[1].summary = Str("No summary available")
    /\ summarizer = "failed" =>
          /\ ~w_raised
          /\ journal_info.summary = Str("Error generating summary")
          /\ w_pc = "returned" => journal_data = <<journal_info>>

\* C17 witness: the summarizer failed and the entry was handed to persistence
\* with the fixed summary
C17_Witness ==
    /\ w_pc = "returned"
    /\ summarizer = "failed"
    /\ EntryBuilt
    /\ journal_data[1].summary = Str("Error generating summary")
    /\ NonEmptyStr(journal_data[1].conversation)

\* the collected data under each of the three places of the payload
CollectedPlaces ==
    {Get(webhook_data, "data_collection", EmptyDict),
     Get(webhook_data, "collected_data", EmptyDict),
     Get(Get(webhook_data, "analysis", EmptyDict), "data_collection", EmptyDict)}
CollectedFields == {"major_events", "mood", "insights", "action_items"}

\* C18: non-empty collected data under any of the three places gives the
\* entry its major_events, mood, insights and action_items, whatever the other
\* two places hold.
C18_CollectedDataFromAnyPlace ==
    EntryBuilt =>
       \A c \in CollectedPlaces :
          (c.t = "dict" /\ Truthy(c)) =>
             \A f \in CollectedFields : In(f, c) => journal_data[1][f] = Get(c, f, Null)

\* a payload of unrecognized shape: none of the keys the formats read
ShapeKeys == IdKeys \cup {"event", "transcript", "text", "conversation", "call_data"}
Unrecognized == \A k \in ShapeKeys : ~In(k, webhook_data)

\* C19: for a payload of unrecognized shape the else branch gives the entry an
\* id that starts with "journal-" and a conversation that is a placeholder
\* text, not the empty string.
C19_FallbackPlaceholder ==
    (EntryBuilt /\ Unrecognized) =>
       /\ format = 0
       /\ SubSeq(journal_data[1].id.s, 1, 8) = "journal-"
       /\ NonEmptyStr(journal_data[1].conversation)

\* the part of C19 the code does
FallbackSynthesizesId ==
    (EntryBuilt /\ Unrecognized) =>
       (format = 0 /\ SubSeq(journal_data[1].id.s, 1, 8) = "journal-")

\* a turn resolved on its own: the speaker from role or speaker, the content
\* from message, text or content
TurnSpeaker(e) ==
    IF In("role", e) THEN Get(e, "role", Null)
    ELSE Get(e, "speaker", Str("unknown"))
TurnContent(e) ==
    IF In("message", e) THEN Get(e, "message", Null)
    ELSE IF In("text", e) THEN Get(e, "text", Null)
    ELSE Get(e, "content", Str(""))
RECURSIVE TurnLines(_)
TurnLines(turns) ==
    IF turns = <<>> THEN ""
    ELSE Capitalize(TurnSpeaker(Head(turns)).s) \o ": " \o PyStr(TurnContent(Head(turns)))
            \o "\n" \o TurnLines(Tail(turns))
\* the list of turn-records format 2 and format 4 render
TurnsOf(wd, n) ==
    IF n = 2 THEN Get(Get(wd, "conversation", EmptyDict), "messages", List(<<>>))
    ELSE Get(wd, "transcript", List(<<>>))

\* C20: a list of turn-records is rendered one turn per line, in order, as
\* "<Role>: <content>", each turn with the speaker and content fields it has.
C20_TurnResolvedOnItsOwn ==
    (EntryBuilt /\ format \in {2, 4}) =>
       LET turns == TurnsOf(webhook_data, format)
       IN  (turns.t = "list" /\ \A i \in DOMAIN turns.l : turns.l[i].t = "dict") =>
              journal_data[1].conversation = Str(Strip(TurnLines(turns.l)))

\* C21: the conversation of every entry process_webhook_data builds is a
\* string, whether the transcript of the payload is a string, a list of
\* turn-records or an object holding a messages list.
C21_ConversationIsString ==
    EntryBuilt => journal_data[1].conversation.t = "str"

\* the part of C21 the code does: formats 2 and 4 always give a string
RenderedFormatsGiveString ==
    (EntryBuilt /\ format \in {2, 4}) => journal_data[1].conversation.t = "str"

\* requests sent to all endpoints together
RECURSIVE SumReqs(_)
SumReqs(e) == IF e = 0 THEN 0 ELSE reqs[e] + SumReqs(e - 1)
RequestsBounded ==
    /\ \A e \in Endpoints : reqs[e] <= max_retries
    /\ SumReqs(NumEndpoints) <= NumEndpoints * max_retries

C30_FailedReadNoDuplicates ==
    \A p \in Procs :
       (pc[p] \in {"loop", "done"} /\ StoreOf(p) = "sheet") =>
          \A i \in (readAt[p] + 1)..Len(sheet), j \in 1..readAt[p] :
             RowKey(sheet[i]) /= RowKey(sheet[j])

\* the same with the read of the keys succeeding: what the code does
GoodReadNoDuplicates ==
    \A p \in Procs :
       (pc[p] \in {"loop", "done"} /\ StoreOf(p) = "sheet"
          /\ existing_entries[p] = get_existing_entries(SubSeq(sheet, 1, readAt[p]))) =>
          \A i \in (readAt[p] + 1)..Len(sheet), j \in 1..readAt[p] :
             RowKey(sheet[i]) /= RowKey(sheet[j])

\* a finished call that returned normally
Returned(p) == pc[p] = "done" /\ ~failed[p] /\ via[p] /= "swallowed"
\* some row among rows[from..to] satisfies Test
AnyRow(rows, from, to, Test(_)) == \E j \in from..to : Test(rows[j])

\* the skip-or-append decision of the sheet: by the composite key
SheetDecidesByKey ==
    \A p \in Procs :
       (Returned(p) /\ StoreOf(p) = "sheet" /\ ~faults[p]) =>
          \A i \in DOMAIN calls[p] :
             LET e == calls[p][i]
             IN  DateParses(e.date) =>
                    (AnyRow(sheet, readAt[p] + 1, Len(sheet), LAMBDA r : r = SheetRow(e))
                       <=> ~AnyRow(sheet, 1, readAt[p], LAMBDA r : RowKey(r) = EntryKey(e)))

\* the skip-or-append decision of the CSV file, if it were by the composite key
CsvDecidesByKey ==
    \A p \in Procs :
       (Returned(p) /\ StoreOf(p) = "csv") =>
          LET n == Len(CsvData) - wrote[p][2]
          IN  \A i \in DOMAIN calls[p] :
                 LET e == calls[p][i]
                 IN  AnyRow(CsvData, n + 1, Len(CsvData), LAMBDA r : r = CsvRow(e))
                        <=> ~AnyRow(CsvData, 1, n, LAMBDA r : RowKey(r) = RowKey(CsvRow(e)))

\* C23: in bulk mode an item that fails (a date that does not parse) is
\* skipped, not persisted, and every other item of the batch is persisted by
\* the same call (no read or append failing).
C23_BadItemSkippedOthersPersisted ==
    \A p \in Procs :
       (Returned(p) /\ via[p] = "main") =>
          \A i \in DOMAIN calls[p] :
             LET e == calls[p][i]
             IN  /\ ~DateParses(e.date) =>
                       ~AnyRow(CsvData, 1, Len(CsvData), LAMBDA r : r = CsvRow(e))
                 /\ (DateParses(e.date) /\ ~faults[p]) =>
                       IF StoreOf(p) = "sheet" THEN EntryKey(e) \in SheetKeys
                       ELSE AnyRow(CsvData, 1, Len(CsvData), LAMBDA r : r = CsvRow(e))

\* the part of C23 the code does: on the sheet an item whose date does not
\* parse costs the batch nothing
SheetSkipsBadItemOnly ==
    \A p \in Procs :
       (Returned(p) /\ StoreOf(p) = "sheet" /\ ~faults[p]) =>
          /\ \A i \in DOMAIN calls[p] :
                DateParses(calls[p][i].date) => EntryKey(calls[p][i]) \in SheetKeys
          /\ wrote[p][1] <= Cardinality({i \in DOMAIN calls[p] : DateParses(calls[p][i].date)})

\* C25: the sheet and the CSV file take the same decision for an entry: it is
\* skipped exactly when a row with its composite key (date, id) was stored
\* before the call, so an entry whose id is stored under another date is
\* appended.
C25_SameSkipDecision == SheetDecidesByKey /\ CsvDecidesByKey

(***************************************************************************)
(* Properties of the rows in full and of repeated runs                     *)
(***************************************************************************)
\* the runs that appended a row to the given store
AppendedTo(store) == {i \in DOMAIN r_log : r_log[i].store = store /\ r_log[i].rows /= <<>>}
\* the cells of a row that are not the Text cell
SheetCells(r) == {r.date, r.id, r.major_events, r.call_summary, r.action_items,
                  r.customer_sentiment}
CsvCells(r) == {r.date, r.id, r.major_events, r.mood, r.insights, r.action_items}
\* the collected-data values process_webhook_data put in the entry of the run
CollectedIn(info) == {info[f] : f \in CollectedNames} \ {""}

\* C22: every row persistence appends, to the sheet or to the CSV file, has
\* a Text cell of at most 1000 characters.
C22_TextTruncated ==
    /\ \A i \in 2..Len(r_sheet) : r_sheet[i].text <= TextLimit
    /\ \A i \in 2..Len(r_csv) : r_csv[i].text <= TextLimit

\* the sheet half of C22: text[:1000] in append_row
SheetTextTruncated ==
    \A i \in 2..Len(r_sheet) : r_sheet[i].text <= TextLimit

\* C26: the same payload processed twice, at two instants, both times with
\* the sheet at hand, leaves exactly one row of it in the sheet, whatever
\* timestamp and id the payload carries.
C26_SecondRunIsDuplicate ==
    (/\ r_pc = "saved"
     /\ Len(r_log) = 2
     /\ \A i \in DOMAIN r_log : r_log[i].store = "sheet")
       => Len(r_sheet) = 2

\* what the code does give: a payload with its own id and a timestamp that
\* parses is stored once
StampedPayloadStoredOnce ==
    (/\ r_pc = "saved"
     /\ \A i \in DOMAIN r_log : r_log[i].store = "sheet"
     /\ r_payload.id /= ""
     /\ DateParses(r_payload.timestamp) /\ r_payload.timestamp /= "")
       => Len(r_sheet) = 2

\* C27: every collected-data value of the entry is in the row persisted for
\* it, in the sheet as in the CSV file.
C27_CollectedDataPersisted ==
    (r_pc = "saved" /\ r_log[Len(r_log)].rows /= <<>>) =>
        LET last == r_log[Len(r_log)]
            cells == IF last.store = "sheet" THEN SheetCells(last.rows[1])
                     ELSE CsvCells(last.rows[1])
        IN  CollectedIn(r_info) \subseteq cells

\* the CSV half of C27: save_to_csv writes the four fields
CsvKeepsCollected ==
    (r_pc = "saved" /\ r_log[Len(r_log)].rows /= <<>> /\ r_log[Len(r_log)].store = "csv")
        => CollectedIn(r_info) \subseteq CsvCells(r_log[Len(r_log)].rows[1])

(***************************************************************************)
(* Properties of POST /webhook                                             *)
(***************************************************************************)
Answered == h_pc = "responded"
\* the request is valid: a JSON object with a conversation_id
ValidRequest ==
    h_request.body.kind = "object" /\ h_request.body.conversation_id /= ""

\* C24: every POST gets exactly one structured response and no exception
\* leaves the handler: 400 when the body is not a JSON object or has no
\* conversation_id, 500 when summarization is unavailable or fails, 200
\* with status "success" when the request is valid and the pipeline, run
\* for it, completes successfully.
C24_StructuredResponses ==
    Answered =>
       /\ Len(h_responses) = 1 /\ ~h_escaped
       /\ ~ValidRequest => h_responses[1].code = 400
       /\ (ValidRequest /\ (~summarize_available \/ ~h_request.pipeline_ok))
             => h_responses[1].code = 500
       /\ (ValidRequest /\ summarize_available /\ h_request.pipeline_ok)
             => h_responses[1].code = 200 /\ h_responses[1].status = "success"

\* what the handler does give: one response, no exception out, 400 for a
\* parsed body that is no object or has no conversation_id, 500 without the
\* summarizer
OneResponseAndParsedBodies ==
    Answered =>
       /\ Len(h_responses) = 1 /\ ~h_escaped
       /\ h_responses[1].code \in {200, 400, 500}
       /\ (data /= <<>> /\ ~ValidRequest) => h_responses[1].code = 400
       /\ (ValidRequest /\ ~summarize_available) => h_responses[1].code = 500

\* no POST is answered with 200
NeverSuccess == \A i \in DOMAIN h_responses : h_responses[i].code /= 200

(***************************************************************************)
(* Properties of the perplexity_summarize pipeline                         *)
(***************************************************************************)
\* a run with --save-to-sheets and --save-to-csv (to the default file) that
\* reached its end
BothSavesDone ==
    /\ m_pc = "done" /\ m_ret = 0
    /\ args.save_to_sheets /\ args.save_to_csv
    /\ args.csv_file = "journal_entries.csv"
\* every data row of the file has the columns of its header row
RowsMatchHeader(file) ==
    \A i \in DataRows(file) : file[1].header /\ file[i].fields = file[1].fields

\* C29: a run with both saves enabled writes at most one row to
\* journal_entries.csv, the sheet reachable or not, and every data row of
\* the file has the columns of the header row.
C29_OneRowUnderOneHeader ==
    BothSavesDone =>
       /\ Cardinality(DataRows(files["journal_entries.csv"])) <= m_before + 1
       /\ RowsMatchHeader(files["journal_entries.csv"])

\* with one writer only, the rows of a file follow its header: a run that
\* does not save to the sheet, on a disk no fallback ever wrote to
OneWriterRowsMatchHeader ==
    (\A i \in DOMAIN files["journal_entries.csv"] :
         files["journal_entries.csv"][i].fields = PerplexityHeaders)
       => /\ RowsMatchHeader(files["journal_entries.csv"])
          /\ (m_pc = "done" =>
                 Cardinality(DataRows(files["journal_entries.csv"])) <= m_before + 1)

====
